---------------------------- MODULE Spec2Model ----------------------------
(***************************************************************************)
(* A model of the matching and chunk pipeline of carrer_copilot:           *)
(*   - ResumeJDMatcher (src/match/resume_jd_matcher.py): the merge cache,  *)
(*     the rough / precise / hybrid matching funnel;                       *)
(*   - ChunkSizeManager (src/utils/chunk_size_manager.py).                 *)
(* Each component has a specification of its own (SpecCache, SpecRough,    *)
(* SpecFunnel, SpecChunks) over the shared variables; a specification      *)
(* leaves the other components' variables unchanged.                       *)
(***************************************************************************)
EXTENDS Integers, Sequences, FiniteSets, TLC

VARIABLES
    merge_cache,   \* ResumeJDMatcher._merge_cache: cache key -> merged text
    call,          \* the last operation on the cache and what it returned
    hist,          \* the merge calls made since the last clear_cache()
    ncalls,        \* number of cache operations made so far
    mode,          \* the matching run: "rough", "precise" or "hybrid"
    pc,            \* where the run is: idle, lookup, precise, batch, done, aborted
    hits,          \* the rows the vector store returned for the rough query
    jd_chunks,     \* the JD fragments given to the run
    precise_top_n, \* hybrid: how many rough results get the precise analysis
    rough_results, \* hybrid: the list rough_match_resumes returned
    resume_chunks_list, \* the (resume_id, chunks) pairs to analyse
    idx,           \* the position of the loop the run is in
    precise_results, \* results of the precise loop so far
    lookups,       \* hybrid: what get_chunks_by_document returned, per top id
    outcomes,      \* what the deep evaluation did, per analysed candidate
    presort,       \* the list the run's final sort was applied to
    results,       \* the list the run returned
    input_chunks,  \* the fragments given to ChunkSizeManager.process_chunks
    processed_chunks, \* the list process_chunks returned
    chunk_pc,      \* "parsed" before chunking, "input" before process_chunks, then "done"
    structured_fields, \* the parsed document the chunker is given
    documents_collection, \* the store: document id -> the document
    chunks_collection,    \* the store: fragment id -> the fragment
    pdf_storage,   \* the store: document id -> the PDF file <id>.pdf
    last_op,       \* the last upload or delete and the store it found
    nops,          \* number of upload and delete handler calls so far
    batch,         \* the process_batch_upload call that is running
    deep_pc,       \* where a run of deep evaluations is: "idle", "loop", "calling", "returned"
    deep_mode,     \* the run's mode, "precise" or "hybrid"
    deep_jd,       \* the JD fragments of the run
    deep_queue,    \* the candidates the loop has not finished yet
    deep_results,  \* the results appended so far, then the list returned
    truncate_args, \* the arguments of a truncate_text call
    truncate_ret,  \* what the call returned
    name_arg,      \* the argument of a clean_name_for_id call
    name_ret,      \* what the call returned
    agg_hits,      \* the hits search_similar_chunks returned to a rough match
    agg_ret,       \* the list that rough match returned
    parse_pc,      \* where a parse_with_llm call is
    parse_input,   \* its resume_input (the cache key) and is_pdf
    file_state,    \* the state of the uploaded PDF as last reported
    attempts,      \* the polls of the wait loop so far
    parse_outcome, \* what the call returned or raised
    extract_cache, \* the extraction cache: key -> parsed record
    parse_calls      \* generate_content calls of the extraction so far

cacheVars == <<merge_cache, call, hist, ncalls>>

funnelVars ==
    <<mode, pc, hits, jd_chunks, precise_top_n, rough_results, resume_chunks_list,
      idx, precise_results, lookups, outcomes, presort, results>>

chunkVars == <<input_chunks, processed_chunks, chunk_pc, structured_fields>>

storeVars ==
    <<documents_collection, chunks_collection, pdf_storage, last_op, nops, batch>>

waitVars == <<deep_pc, deep_mode, deep_jd, deep_queue, deep_results>>

textVars == <<truncate_args, truncate_ret, name_arg, name_ret>>

aggVars == <<agg_hits, agg_ret>>

parseVars ==
    <<parse_pc, parse_input, file_state, attempts, parse_outcome, extract_cache, parse_calls>>

vars ==
    <<cacheVars, funnelVars, chunkVars, storeVars, waitVars, textVars, aggVars, parseVars>>

(***************************************************************************)
(* Generic helpers                                                         *)
(***************************************************************************)

\* Python's dict.get(key, default) on a record
Get(d, key, default) == IF key \in DOMAIN d THEN d[key] ELSE default

Range(s) == {s[i] : i \in 1..Len(s)}

\* s and t hold the same elements with the same multiplicities
IsPerm(s, t) ==
    /\ Len(s) = Len(t)
    /\ \A x \in Range(s) \cup Range(t) :
          Cardinality({i \in 1..Len(s) : s[i] = x})
        = Cardinality({i \in 1..Len(t) : t[i] = x})

RECURSIVE Flatten(_)
Flatten(ss) == IF ss = <<>> THEN <<>> ELSE Head(ss) \o Flatten(Tail(ss))

\* Python's sep.join(items): items and sep are token sequences
RECURSIVE Join(_, _)
Join(sep, items) ==
    IF items = <<>> THEN <<>>
    ELSE IF Len(items) = 1 THEN Head(items)
    ELSE Head(items) \o sep \o Join(sep, Tail(items))

(***************************************************************************)
(* Merge cache: merge_resume_chunks, _generate_chunks_hash, clear_cache    *)
(* A text is the sequence of the pieces it is concatenated from.           *)
(***************************************************************************)

NoId == "None"

Chunk(f, c) == [content |-> c, metadata |-> [field |-> f]]

\* a chunk whose metadata carries no 'field'
ChunkNoField(c) == [content |-> c, metadata |-> [document_type |-> "resume"]]

\* str.upper() on the field names used
Upper(f) ==
    CASE f = "summary"        -> "SUMMARY"
      [] f = "experience"     -> "EXPERIENCE"
      [] f = "skills"         -> "SKILLS"
      [] f = "education"      -> "EDUCATION"
      [] f = "certifications" -> "CERTIFICATIONS"
      [] f = "projects"       -> "PROJECTS"
      [] f = "achievements"   -> "ACHIEVEMENTS"
      [] f = "hobbies"        -> "HOBBIES"
      [] f = "languages"      -> "LANGUAGES"
      [] f = "unknown"        -> "UNKNOWN"
      [] OTHER                -> f

field_order ==
    <<"summary", "experience", "skills", "education",
      "certifications", "projects", "achievements">>

\* chunk.get('metadata', {}).get('field', 'unknown')
FieldOf(chunk) == Get(Get(chunk, "metadata", [none |-> 0]), "field", "unknown")

ContentOf(chunk) == Get(chunk, "content", "")

\* the field_groups dict: a sequence of <<field, contents>> in first-encounter
\* (insertion) order
RECURSIVE GroupByField(_, _)
GroupByField(chunks, groups) ==
    IF chunks = <<>> THEN groups
    ELSE LET f == FieldOf(Head(chunks))
             c == ContentOf(Head(chunks))
             known == \E i \in 1..Len(groups) : groups[i][1] = f
             next == IF known
                     THEN [i \in 1..Len(groups) |->
                             IF groups[i][1] = f
                             THEN <<f, Append(groups[i][2], c)>>
                             ELSE groups[i]]
                     ELSE Append(groups, <<f, <<c>>>>)
         IN  GroupByField(Tail(chunks), next)

\* f"## {field.upper()}\n{section_content}" with section_content = '\n'.join(contents)
Section(f, contents) ==
    <<"## ", Upper(f), "\n">> \o Join(<<"\n">>, [i \in 1..Len(contents) |-> <<contents[i]>>])

\* the merged_sections list: preferred fields first, then the remaining groups
MergedSections(groups) ==
    LET inOrder(f) == \E i \in 1..Len(field_order) : field_order[i] = f
        has(f)     == \E i \in 1..Len(groups) : groups[i][1] = f
        of(f)      == (CHOOSE i \in 1..Len(groups) : groups[i][1] = f)
        preferred  == SelectSeq(field_order, has)
        first      == [i \in 1..Len(preferred) |->
                         Section(preferred[i], groups[of(preferred[i])][2])]
        notPref(g) == ~inOrder(g[1])
        rest       == SelectSeq(groups, notPref)
        second     == [i \in 1..Len(rest) |-> Section(rest[i][1], rest[i][2])]
    IN  first \o second

\* the merge computation of merge_resume_chunks (lines 97-133), cache aside
MergeComputation(chunks) ==
    IF chunks = <<>> THEN <<>>
    ELSE Join(<<"\n\n">>, MergedSections(GroupByField(chunks, <<>>)))

\* json.dumps(chunks, sort_keys=True): the chunks in list order, each with its
\* keys in sorted order (content < metadata; inside metadata the keys sorted)
JsonDumps(chunks) ==
    [i \in 1..Len(chunks) |->
        <<"content", ContentOf(chunks[i]), "metadata",
          IF "field" \in DOMAIN chunks[i].metadata
          THEN <<"field", chunks[i].metadata.field>>
          ELSE <<"document_type", chunks[i].metadata.document_type>> >>]

\* hashlib.md5(...).hexdigest(), taken to be collision free
Md5(s) == [kind |-> "md5", id |-> "", digest |-> s]

_generate_chunks_hash(chunks) == Md5(JsonDumps(chunks))

\* a resume id used as a key
IdKey(id) == [kind |-> "id", id |-> id, digest |-> <<>>]

\* mutant: the key is always the content hash
CacheKeyHashOnly(chunks, resume_id) == _generate_chunks_hash(chunks)

\* cache_key = resume_id if resume_id else self._generate_chunks_hash(chunks)
CacheKey(chunks, resume_id) ==
    IF resume_id # NoId THEN IdKey(resume_id) ELSE _generate_chunks_hash(chunks)


\* merge_resume_chunks(chunks, resume_id) on a cache: what it returns, the
\* cache it leaves, and whether it took the hit path or ran the computation
merge_resume_chunks(cache, chunks, resume_id) ==
    IF chunks = <<>>
    THEN [ret |-> <<>>, cache |-> cache, hit |-> FALSE, computed |-> FALSE]
    ELSE LET cache_key == CacheKey(chunks, resume_id)
         IN  IF cache_key \in DOMAIN cache
             THEN [ret |-> cache[cache_key], cache |-> cache,
                   hit |-> TRUE, computed |-> FALSE]
             ELSE LET merged_content == MergeComputation(chunks)
                  IN  [ret |-> merged_content,
                       cache |-> [k \in DOMAIN cache \cup {cache_key} |->
                                    IF k = cache_key THEN merged_content ELSE cache[k]],
                       hit |-> FALSE, computed |-> TRUE]

EmptyCache == [k \in {} |-> <<>>]

\* bound: cache operations per behaviour
MaxCalls == 3

cA == Chunk("skills", "a")
cB == Chunk("skills", "b")
cE == Chunk("experience", "a")
cH == Chunk("hobbies", "a")
cL == Chunk("languages", "a")
cU == ChunkNoField("a")

\* the fragment lists the calls are made with
ChunkLists ==
    { <<>>, <<cA>>, <<cA, cB>>, <<cB, cA>>, <<cA, cE>>, <<cE, cA>>,
      <<cH, cL>>, <<cL, cH>>, <<cU, cA>> }

ResumeIds == {NoId, "r1"}

NoCall ==
    [op |-> "none", chunks |-> <<>>, id |-> NoId, ret |-> <<>>,
     hit |-> FALSE, computed |-> FALSE, before |-> EmptyCache]

InitCache ==
    /\ merge_cache = EmptyCache
    /\ call = NoCall
    /\ hist = {}
    /\ ncalls = 0

MergeResumeChunks(chunks, resume_id) ==
    /\ ncalls < MaxCalls
    /\ LET r == merge_resume_chunks(merge_cache, chunks, resume_id)
       IN  /\ merge_cache' = r.cache
           /\ call' = [op |-> "merge", chunks |-> chunks, id |-> resume_id,
                       ret |-> r.ret, hit |-> r.hit, computed |-> r.computed,
                       before |-> merge_cache]
           /\ hist' = IF call.op = "merge"
                      THEN hist \cup {[chunks |-> call.chunks, id |-> call.id,
                                       ret |-> call.ret]}
                      ELSE hist
    /\ ncalls' = ncalls + 1
    /\ UNCHANGED funnelVars
    /\ UNCHANGED chunkVars
    /\ UNCHANGED <<waitVars, textVars, aggVars, parseVars>>
    /\ UNCHANGED storeVars

\* clear_cache(): self._merge_cache.clear()
ClearCache ==
    /\ ncalls < MaxCalls
    /\ merge_cache' = EmptyCache
    /\ call' = [NoCall EXCEPT !.op = "clear", !.before = merge_cache]
    /\ hist' = {}
    /\ ncalls' = ncalls + 1
    /\ UNCHANGED funnelVars
    /\ UNCHANGED chunkVars
    /\ UNCHANGED <<waitVars, textVars, aggVars, parseVars>>
    /\ UNCHANGED storeVars

NextCache ==
    \/ \E chunks \in ChunkLists, resume_id \in ResumeIds :
          MergeResumeChunks(chunks, resume_id)
    \/ ClearCache

(***************************************************************************)
(* Claims on the merge cache                                               *)
(***************************************************************************)

\* C3 (as claimed): every merge_resume_chunks call returns the text an
\* uncached merge of the fragment list passed to that call would return
C3_HitEqualsMiss ==
    call.op = "merge" => call.ret = MergeComputation(call.chunks)

\* an earlier call, since the last clear, with the same id and the same
\* fragments as the last call, possibly in another order
EarlierSame(h) ==
    /\ h \in hist
    /\ h.id = call.id
    /\ IsPerm(h.chunks, call.chunks)

\* C4: a second merge_resume_chunks call with the same resume_id and an
\* equal fragment list (in any order), no clear_cache in between, returns the
\* same text as the first, runs no merge computation and leaves the cache
\* as it was
C4_SecondCallIsHit ==
    (call.op = "merge" /\ call.id # NoId) =>
        \A h \in hist : EarlierSame(h) =>
            /\ call.ret = h.ret
            /\ ~call.computed
            /\ (call.chunks # <<>> => call.hit)
            /\ merge_cache = call.before

\* C4 witness: a second call with the same id and the fragments reordered
C4_Witness ==
    /\ call.op = "merge" /\ call.id = "r1" /\ call.hit
    /\ \E h \in hist : EarlierSame(h) /\ h.chunks # call.chunks

\* C5 (as claimed): without a candidate id the key is the same for
\* permutations of one fragment list, so merging a permutation of an already
\* merged list is a cache hit
C5_PermutationSameKey ==
    (call.op = "merge" /\ call.id = NoId /\ call.chunks # <<>>) =>
        \A h \in hist : EarlierSame(h) =>
            /\ _generate_chunks_hash(h.chunks) = _generate_chunks_hash(call.chunks)
            /\ call.hit

(***************************************************************************)
(* Rough matching: search_similar_chunks and rough_match_resumes           *)
(* Units: a distance or similarity n stands for n/100; average_similarity  *)
(* n stands for n/10000; a match_score n stands for n/100 points, so two   *)
(* decimals of a score are exact.                                          *)
(***************************************************************************)

\* Config (src/config.py), in points
MIN_MATCH_SCORE == 60
STRONG_MATCH_THRESHOLD == 80
GOOD_MATCH_THRESHOLD == 65
PARTIAL_MATCH_THRESHOLD == 50

\* n points as a match_score
Points(n) == n * 100

NoDoc == "None"

Max(a, b) == IF a >= b THEN a ELSE b
Min(a, b) == IF a <= b THEN a ELSE b

\* floor(num / den) for den > 0 and any integer num
FloorDiv(num, den) == IF num >= 0 THEN num \div den ELSE -((-num + den - 1) \div den)

\* Python's round(): the integer nearest to num/den (den > 0), a tie going
\* to the even one
RoundHalfEven(num, den) ==
    LET q == FloorDiv(num, den)
        r == num - q * den
    IN  IF 2 * r < den THEN q
        ELSE IF 2 * r > den THEN q + 1
        ELSE IF q % 2 = 0 THEN q ELSE q + 1

\* formatted_results of search_similar_chunks: one hit per row the store
\* returns, "similarity": 1 - distance, where one stands for 1
FormatResultsAt(rows, one) ==
    [i \in 1..Len(rows) |->
        [chunk_id |-> i,
         metadata |-> IF rows[i].doc = NoDoc
                      THEN [field |-> "skills"]
                      ELSE [field |-> "skills", document_id |-> rows[i].doc],
         distance |-> rows[i].distance,
         similarity |-> one - rows[i].distance]]

\* the same on distances in hundredths
FormatResults(rows) == FormatResultsAt(rows, 100)

\* the aggregation loop (lines 326-351): per resume id, in first-hit order,
\* the similarity total, the hit count and the hits themselves
RECURSIVE Aggregate(_, _)
Aggregate(search_results, acc) ==
    IF search_results = <<>> THEN acc
    ELSE LET result == Head(search_results)
             resume_id == Get(result.metadata, "document_id", NoDoc)
             similarity == Get(result, "similarity", 0)
             entry == [chunk_id |-> result.chunk_id,
                       field |-> Get(result.metadata, "field", "unknown"),
                       similarity |-> similarity]
             known == \E k \in 1..Len(acc) : acc[k].resume_id = resume_id
             next ==
                 IF resume_id = NoDoc THEN acc
                 ELSE IF known
                 THEN [k \in 1..Len(acc) |->
                         IF acc[k].resume_id = resume_id
                         THEN [acc[k] EXCEPT !.score = @ + similarity,
                                             !.count = @ + 1,
                                             !.top_chunks = Append(@, entry)]
                         ELSE acc[k]]
                 ELSE Append(acc, [resume_id |-> resume_id, score |-> similarity,
                                   count |-> 1, top_chunks |-> <<entry>>])
         IN  Aggregate(Tail(search_results), next)

\* mutant: the fallback branch without its clamp
MatchScoreNoClamp(total_score, chunk_count) ==
    IF total_score >= 0 /\ total_score <= 100 * chunk_count
    THEN IF total_score >= 80 * chunk_count
         THEN RoundHalfEven(8000 * chunk_count + (total_score - 80 * chunk_count) * 100,
                            chunk_count)
         ELSE RoundHalfEven(total_score * 100, chunk_count)
    ELSE RoundHalfEven((total_score + 100 * chunk_count) * 50, chunk_count)

\* lines 357-373: avg_score = total_score / chunk_count, then the scaling to
\* 0-100 and round(match_score, 2), computed exactly on total_score/chunk_count
MatchScore(total_score, chunk_count) ==
    IF total_score >= 0 /\ total_score <= 100 * chunk_count
    THEN IF total_score >= 80 * chunk_count
         THEN RoundHalfEven(8000 * chunk_count + (total_score - 80 * chunk_count) * 100,
                            chunk_count)
         ELSE RoundHalfEven(total_score * 100, chunk_count)
    ELSE LET num == (total_score + 100 * chunk_count) * 50
         IN  IF num < 0 THEN 0
             ELSE IF num > Points(100) * chunk_count THEN Points(100)
             ELSE RoundHalfEven(num, chunk_count)

\* mutant: the GOOD and PARTIAL tests swapped
RecommendationSwapped(match_score) ==
    IF match_score >= Points(STRONG_MATCH_THRESHOLD) THEN "STRONG_MATCH"
    ELSE IF match_score >= Points(PARTIAL_MATCH_THRESHOLD) THEN "PARTIAL_MATCH"
    ELSE IF match_score >= Points(GOOD_MATCH_THRESHOLD) THEN "GOOD_MATCH"
    ELSE "NOT_MATCH"

\* lines 378-386
Recommendation(match_score) ==
    IF match_score >= Points(STRONG_MATCH_THRESHOLD) THEN "STRONG_MATCH"
    ELSE IF match_score >= Points(GOOD_MATCH_THRESHOLD) THEN "GOOD_MATCH"
    ELSE IF match_score >= Points(PARTIAL_MATCH_THRESHOLD) THEN "PARTIAL_MATCH"
    ELSE "NOT_MATCH"

\* mutant: the count taken from the chunks kept for display
RoughResultAtKeptCount(agg, scale) ==
    LET match_score == MatchScore(agg.score, scale * agg.count)
    IN  [resume_id |-> agg.resume_id,
         qualified |-> match_score >= Points(MIN_MATCH_SCORE),
         match_score |-> match_score,
         recommendation |-> Recommendation(match_score),
         matching_chunks_count |-> Min(5, Len(agg.top_chunks)),
         total_similarity |-> (RoundHalfEven(agg.score * 100, scale) * scale) \div 100,
         average_similarity |-> RoundHalfEven(agg.score * 100, scale * agg.count),
         top_matching_chunks |-> SubSeq(agg.top_chunks, 1, Min(5, Len(agg.top_chunks))),
         matching_mode |-> "rough"]

\* the result dict built at lines 388-399 (the free-text summary left out),
\* on similarities of which scale stand for one hundredth;
\* total_similarity = round(total_score, 4) is given in the unit of the
\* similarities, average_similarity = round(avg_score, 4) in ten-thousandths
RoughResultAt(agg, scale) ==
    LET match_score == MatchScore(agg.score, scale * agg.count)
    IN  [resume_id |-> agg.resume_id,
         qualified |-> match_score >= Points(MIN_MATCH_SCORE),
         match_score |-> match_score,
         recommendation |-> Recommendation(match_score),
         matching_chunks_count |-> agg.count,
         total_similarity |-> (RoundHalfEven(agg.score * 100, scale) * scale) \div 100,
         average_similarity |-> RoundHalfEven(agg.score * 100, scale * agg.count),
         top_matching_chunks |-> SubSeq(agg.top_chunks, 1, Min(5, Len(agg.top_chunks))),
         matching_mode |-> "rough"]

\* the same on similarities in hundredths
RoughResult(agg) == RoughResultAt(agg, 1)

\* the key of the three result sorts: x.get('match_score', 0)
SortKey(x) == Get(x, "match_score", 0)

\* x put into a list already in non-increasing key order, after every
\* element whose key is >= its own
RECURSIVE InsertDesc(_, _)
InsertDesc(sorted, x) ==
    IF sorted = <<>> THEN <<x>>
    ELSE IF SortKey(Head(sorted)) >= SortKey(x)
    THEN <<Head(sorted)>> \o InsertDesc(Tail(sorted), x)
    ELSE <<x>> \o sorted

RECURSIVE InsertAll(_, _)
InsertAll(sorted, rest) ==
    IF rest = <<>> THEN sorted
    ELSE InsertAll(InsertDesc(sorted, Head(rest)), Tail(rest))

Reverse(s) == [i \in 1..Len(s) |-> s[Len(s) + 1 - i]]

\* x put into a list in non-decreasing key order, after every element whose
\* key is <= its own
RECURSIVE InsertAsc(_, _)
InsertAsc(sorted, x) ==
    IF sorted = <<>> THEN <<x>>
    ELSE IF SortKey(Head(sorted)) <= SortKey(x)
    THEN <<Head(sorted)>> \o InsertAsc(Tail(sorted), x)
    ELSE <<x>> \o sorted

RECURSIVE InsertAllAsc(_, _)
InsertAllAsc(sorted, rest) ==
    IF rest = <<>> THEN sorted
    ELSE InsertAllAsc(InsertAsc(sorted, Head(rest)), Tail(rest))

\* mutant: an ascending sort followed by a reversal, which turns ties around
SortAscThenReverse(unsorted) == Reverse(InsertAllAsc(<<>>, unsorted))

\* list.sort(key=lambda x: x.get('match_score', 0), reverse=True): Python's
\* sort is stable, also with reverse=True
SortByScoreDesc(unsorted) == InsertAll(<<>>, unsorted)

\* the results list of rough_match_resumes before its sort (lines 318-399),
\* given the rows the store returns for the query
RoughUnsortedAt(rows, scale) ==
    LET search_results == FormatResultsAt(rows, 100 * scale)
        aggs == Aggregate(search_results, <<>>)
    IN  [k \in 1..Len(aggs) |-> RoughResultAt(aggs[k], scale)]

RoughUnsorted(rows) == RoughUnsortedAt(rows, 1)

\* rough_match_resumes: the results, sorted by match_score descending
rough_match_resumes(rows) == SortByScoreDesc(RoughUnsorted(rows))

(***************************************************************************)
(* Precise matching: merge_jd_chunks, match_resume_with_jd                 *)
(***************************************************************************)

\* merge_jd_chunks: the sections in first-encounter order, no cache
merge_jd_chunks(chunks) ==
    IF chunks = <<>> THEN <<>>
    ELSE LET groups == GroupByField(chunks, <<>>)
         IN  Join(<<"\n\n">>,
                  [k \in 1..Len(groups) |-> Section(groups[k][1], groups[k][2])])

\* len(text[:n]) for a text of length len
SliceLen(len, n) == IF n >= 0 THEN Min(len, n) ELSE Max(0, len + n)

\* the length of truncate_text(text, max_length, suffix) for a text of length
\* len and a suffix of length suffix_len
TruncateTextLen(len, max_length, suffix_len) ==
    IF len = 0 THEN 0
    ELSE IF len <= max_length THEN len
    ELSE SliceLen(len, max_length - suffix_len) + suffix_len

\* d[k] = v on a dict
Put(d, k, v) == [x \in DOMAIN d \cup {k} |-> IF x = k THEN v ELSE d[x]]

NoVerdict == [qualified |-> FALSE, match_score |-> 0, recommendation |-> "none"]

\* what the deep-evaluation call can do: return a verdict (a JSON object of
\* the expected schema), raise, or answer a text of length len that holds no
\* JSON object or an invalid one
Verdicts ==
    { [qualified |-> TRUE, match_score |-> Points(85), recommendation |-> "STRONG_MATCH"],
      [qualified |-> FALSE, match_score |-> Points(30), recommendation |-> "NOT_MATCH"] }

LLMOutcomes ==
    {[kind |-> "verdict", verdict |-> v, len |-> 40] : v \in Verdicts}
    \cup {[kind |-> "raise", verdict |-> NoVerdict, len |-> 0],
          [kind |-> "nojson", verdict |-> NoVerdict, len |-> 600],
          [kind |-> "badjson", verdict |-> NoVerdict, len |-> 20]}

NoOutcome == [kind |-> "notcalled", verdict |-> NoVerdict, len |-> 0]

ErrorResult(summary, error) ==
    [qualified |-> FALSE, match_score |-> 0, summary |-> summary, error |-> error]

\* the try body of match_resume_with_jd (lines 203-256): the dict it returns,
\* or raised = TRUE when the LLM call fails and LLMError is raised (line 226)
MatchBody(resume_content, jd_content, out) ==
    IF resume_content = <<>> \/ jd_content = <<>>
    THEN [raised |-> FALSE,
          result |-> ErrorResult("Missing resume or job description content",
                                 "Insufficient data for matching")]
    ELSE IF out.kind = "raise"
    THEN [raised |-> TRUE, result |-> ErrorResult("", "Failed to call LLM API")]
    ELSE IF out.kind = "nojson"
    THEN [raised |-> FALSE,
          result |-> Put(ErrorResult("Error parsing match results",
                                     "No JSON found in response"),
                         "raw_response", TruncateTextLen(out.len, 500, 3))]
    ELSE IF out.kind = "badjson"
    THEN [raised |-> FALSE,
          result |-> Put(ErrorResult("Error parsing match results",
                                     "JSON parsing failed"),
                         "raw_response", TruncateTextLen(out.len, 500, 3))]
    ELSE [raised |-> FALSE, result |-> out.verdict]

\* mutant: the outer handler lets the exception through
OnExceptionPropagate(body) == body

\* the outer except of match_resume_with_jd (lines 258-265): an exception
\* becomes an error dict
OnException(body) ==
    IF body.raised
    THEN [raised |-> FALSE,
          result |-> ErrorResult("Error during matching process", body.result.error)]
    ELSE body

\* the deep-evaluation call is reached only with both contents present
CallsLLM(resume_chunks, jd) == resume_chunks # <<>> /\ jd # <<>>

\* match_resume_with_jd on a cache, with the outcome of its LLM call
match_resume_with_jd(cache, resume_chunks, jd, out) ==
    LET m == merge_resume_chunks(cache, resume_chunks, NoId)
        jd_content == merge_jd_chunks(jd)
        r == OnException(MatchBody(m.ret, jd_content, out))
    IN  [raised |-> r.raised, result |-> r.result, cache |-> m.cache]

(***************************************************************************)
(* ChunkSizeManager: estimate_tokens, split_into_sentences,                *)
(* validate_chunk_size, split_oversized_chunk, process_chunks              *)
(*                                                                         *)
(* A text is a sequence of pieces [w, p, sp]: w words separated by         *)
(* whitespace, then the punctuation mark p ("" for none, "," for a comma   *)
(* or semicolon, "." for one of . ! ?) written right after the last word   *)
(* (on its own when w = 0), then whitespace when sp is TRUE and nothing    *)
(* when it is FALSE, so that the next piece follows without a gap.         *)
(***************************************************************************)

MAX_TOKENS == 512
IDEAL_TOKENS == 256
MIN_TOKENS == 50

Piece(w, p, sp) == [w |-> w, p |-> p, sp |-> sp]

\* the whitespace-separated tokens a piece written on its own has
OwnTokens(piece) ==
    IF piece.w >= 1 THEN piece.w ELSE IF piece.p # "" THEN 1 ELSE 0

\* estimate_tokens: len(text.split()); a piece written right after a piece
\* that ends without whitespace continues that piece's last token
estimate_tokens(text) ==
    LET Tok[i \in 0..Len(text)] ==
            IF i = 0 THEN 0
            ELSE LET glued == /\ i > 1
                              /\ ~text[i - 1].sp
                              /\ OwnTokens(text[i - 1]) >= 1
                              /\ OwnTokens(text[i]) >= 1
                 IN  Tok[i - 1] + OwnTokens(text[i]) - (IF glued THEN 1 ELSE 0)
    IN  Tok[Len(text)]

\* text.strip() is empty
IsBlank(text) == \A i \in 1..Len(text) : OwnTokens(text[i]) = 0

\* text.strip(): a text holds whitespace only after a piece, and only a
\* trailing piece can be empty, so stripping takes the empty pieces off the
\* end and the whitespace after the last piece left
RECURSIVE Strip(_)
Strip(text) ==
    IF text = <<>> THEN <<>>
    ELSE IF OwnTokens(text[Len(text)]) = 0 THEN Strip(SubSeq(text, 1, Len(text) - 1))
    ELSE [text EXCEPT ![Len(text)].sp = FALSE]

\* re.split(r'(?<=[.!?])\s+', text): a cut at each whitespace that follows
\* a sentence mark
RECURSIVE SplitAfterStops(_, _)
SplitAfterStops(text, current) ==
    IF text = <<>> THEN <<current>>
    ELSE LET piece == Head(text)
         IN  IF piece.p = "." /\ piece.sp /\ Len(text) > 1
             THEN <<Append(current, piece)>> \o SplitAfterStops(Tail(text), <<>>)
             ELSE SplitAfterStops(Tail(text), Append(current, piece))

\* split_into_sentences: [s.strip() for s in sentences if s.strip()]
split_into_sentences(text) ==
    LET raw == SplitAfterStops(text, <<>>)
        stripped == [i \in 1..Len(raw) |-> Strip(raw[i])]
        nonblank(t) == ~IsBlank(t)
    IN  SelectSeq(stripped, nonblank)

\* re.split(r'[,;]', sentence): a cut at each comma or semicolon, which is
\* taken out; n marks give n + 1 parts
RECURSIVE SplitOnCommas(_, _)
SplitOnCommas(sentence, current) ==
    IF sentence = <<>> THEN <<current>>
    ELSE LET piece == Head(sentence)
         IN  IF piece.p = ","
             THEN <<Append(current, [piece EXCEPT !.p = ""])>>
                      \o SplitOnCommas(Tail(sentence), <<>>)
             ELSE SplitOnCommas(Tail(sentence), Append(current, piece))

\* " ".join(items); an empty item leaves its separator behind
JoinSpace(items) ==
    LET closed(item) == IF item = <<>> THEN <<Piece(0, "", TRUE)>>
                        ELSE [item EXCEPT ![Len(item)].sp = TRUE]
        all == Flatten([i \in 1..Len(items) |-> closed(items[i])])
    IN  IF all = <<>> THEN <<>> ELSE [all EXCEPT ![Len(all)].sp = FALSE]

\* mutant: the open chunk is never closed, every item is added to it
PackNoFlush(st, item, item_tokens) ==
    [st EXCEPT !.current_chunk = Append(@, item),
               !.current_tokens = @ + item_tokens]

\* the greedy rule used for sentences (lines 155-162) and for the parts of a
\* long sentence (lines 145-151): close the open chunk when the item would
\* take it past IDEAL_TOKENS, else add the item to it
Pack(st, item, item_tokens) ==
    IF st.current_tokens + item_tokens > IDEAL_TOKENS /\ st.current_chunk # <<>>
    THEN [sub_chunks |-> Append(st.sub_chunks, JoinSpace(st.current_chunk)),
          current_chunk |-> <<item>>,
          current_tokens |-> item_tokens]
    ELSE [st EXCEPT !.current_chunk = Append(@, item),
                    !.current_tokens = @ + item_tokens]

\* lines 141-151: the parts of a long sentence, each stripped and packed
RECURSIVE PackParts(_, _)
PackParts(st, parts) ==
    IF parts = <<>> THEN st
    ELSE LET part == Strip(Head(parts))
         IN  PackParts(Pack(st, part, estimate_tokens(part)), Tail(parts))

\* lines 133-137: the open chunk is saved before a long sentence is split
SaveCurrent(st) ==
    IF st.current_chunk # <<>>
    THEN [sub_chunks |-> Append(st.sub_chunks, JoinSpace(st.current_chunk)),
          current_chunk |-> <<>>,
          current_tokens |-> 0]
    ELSE st

\* the loop over the sentences (lines 128-162)
RECURSIVE PackSentences(_, _)
PackSentences(st, sentences) ==
    IF sentences = <<>> THEN st
    ELSE LET sentence == Head(sentences)
             sentence_tokens == estimate_tokens(sentence)
             next == IF sentence_tokens > MAX_TOKENS
                     THEN PackParts(SaveCurrent(st), SplitOnCommas(sentence, <<>>))
                     ELSE Pack(st, sentence, sentence_tokens)
         IN  PackSentences(next, Tail(sentences))

\* the texts of the sub-chunks of an oversized text (lines 120-166)
SubChunks(text) ==
    LET st == PackSentences([sub_chunks |-> <<>>, current_chunk |-> <<>>,
                             current_tokens |-> 0],
                            split_into_sentences(text))
    IN  (SaveCurrent(st)).sub_chunks

\* split_oversized_chunk(chunk_data), preserve_metadata = True
split_oversized_chunk(chunk_data) ==
    IF estimate_tokens(chunk_data.content) <= MAX_TOKENS THEN <<chunk_data>>
    ELSE LET sub_chunks == SubChunks(chunk_data.content)
         IN  [i \in 1..Len(sub_chunks) |->
                [chunk_id |-> <<chunk_data.chunk_id, "part", i - 1>>,
                 field |-> chunk_data.field,
                 content |-> sub_chunks[i],
                 metadata |-> Put(Put(Put(Put(chunk_data.metadata,
                                  "is_split", TRUE),
                                  "original_chunk_id", chunk_data.chunk_id),
                                  "part_number", i - 1),
                                  "total_parts", Len(sub_chunks))]]

\* validate_chunk_size(text)['status']
validate_chunk_size(text) ==
    LET tokens == estimate_tokens(text)
    IN  IF tokens > MAX_TOKENS THEN "TOO_LARGE"
        ELSE IF tokens < MIN_TOKENS THEN "TOO_SMALL"
        ELSE IF tokens > IDEAL_TOKENS THEN "LARGE"
        ELSE "OPTIMAL"

\* process_chunks(chunks), which validate_and_split_chunks returns
RECURSIVE process_chunks(_)
process_chunks(chunks) ==
    IF chunks = <<>> THEN <<>>
    ELSE LET chunk == Head(chunks)
         IN  (IF validate_chunk_size(chunk.content) = "TOO_LARGE"
              THEN split_oversized_chunk(chunk)
              ELSE <<chunk>>) \o process_chunks(Tail(chunks))

\* the sizes of the runs of words of the texts drawn
WordCounts == {0, 40, 300, 600}

MaxPieces == 3

\* the pieces of the texts drawn: a run of words alone is followed by
\* whitespace, and a mark is written without a gap before the next piece
\* only after a short run
Pieces ==
    { Piece(w, "", TRUE) : w \in WordCounts \ {0} }
        \cup { Piece(w, p, TRUE) : w \in WordCounts, p \in {",", "."} }
        \cup { Piece(w, p, FALSE) : w \in {0, 40}, p \in {",", "."} }

\* the texts of n pieces
Texts(n) == [1..n -> Pieces]

ChunkData(chunk_id, field, content) ==
    [chunk_id |-> chunk_id, field |-> field, content |-> content,
     metadata |-> [document_id |-> "r1"]]

SmallChunk == ChunkData("r1_basic_info", "basic_info", <<Piece(40, ".", FALSE)>>)

\* the lists given: one fragment, or a small fragment and one more
ChunkInputs(text) ==
    LET chunk == ChunkData("r1_experience_0", "experience", text)
    IN  IF Len(text) = MaxPieces THEN { <<chunk>>, <<SmallChunk, chunk>> }
        ELSE { <<chunk>> }

\* no parsed document at hand
NoFields == [document_type |-> "none", fields |-> <<>>]

InitChunks ==
    /\ input_chunks = <<>>
    /\ processed_chunks = <<>>
    /\ chunk_pc = "done"
    /\ structured_fields = NoFields

InitChunkInputs ==
    /\ \E n \in 1..MaxPieces : \E text \in Texts(n) : input_chunks \in ChunkInputs(text)
    /\ processed_chunks = <<>>
    /\ chunk_pc = "input"
    /\ structured_fields = NoFields

\* validate_and_split_chunks(chunks)
ValidateAndSplitChunks ==
    /\ chunk_pc = "input"
    /\ processed_chunks' = process_chunks(input_chunks)
    /\ chunk_pc' = "done"
    /\ UNCHANGED <<input_chunks, structured_fields>>
    /\ UNCHANGED <<cacheVars, funnelVars, waitVars, textVars, aggVars, parseVars>>
    /\ UNCHANGED storeVars

NextChunks == ValidateAndSplitChunks

(***************************************************************************)
(* The matching funnel: rough_match_resumes, batch_match_resumes and       *)
(* hybrid_match_resumes as runs on one matcher                             *)
(***************************************************************************)

Docs == {"r1", "r2", "r3"}

\* bound: rows the store returns for one query (top_k)
MaxRows == 3

\* distances the store reports; similarity = 1 - distance
RoughDistances == {-20, 0, 10, 20, 60, 100, 150, 250}
HybridDistances == {10, 60}

\* the store's answer: at most MaxRows rows, nearest first
RowSeqs(docs, distances) ==
    UNION { {r \in [1..n -> [doc : docs, distance : distances]] :
                \A k \in 1..(n - 1) : r[k].distance <= r[k + 1].distance}
            : n \in 0..MaxRows }

\* inputs of the precise runs
JdChunkLists == { <<>>, <<cA, cE>> }
ResumeChunkLists == { <<>>, <<cA>>, <<cE, cA>> }

\* the fragments the store holds of each resume
StoredChunks(resume_id) ==
    CASE resume_id = "r1" -> <<cA>>
      [] resume_id = "r2" -> <<cE, cA>>
      [] OTHER            -> <<cA>>

\* (resume_id, chunks) lists of distinct ids
BatchLists ==
    UNION { {l \in [1..n -> [resume_id : Docs, chunks : ResumeChunkLists]] :
                \A a, b \in 1..n : a # b => l[a].resume_id # l[b].resume_id}
            : n \in 0..Cardinality(Docs) }

TopNs == 0..Cardinality(Docs)

InitFunnel ==
    /\ mode = "none"
    /\ pc = "idle"
    /\ hits = <<>>
    /\ jd_chunks = <<>>
    /\ precise_top_n = 0
    /\ rough_results = <<>>
    /\ resume_chunks_list = <<>>
    /\ idx = 0
    /\ precise_results = <<>>
    /\ lookups = <<>>
    /\ outcomes = <<>>
    /\ presort = <<>>
    /\ results = <<>>

\* mutant: the list is returned as it was combined
ReturnUnsorted(unsorted) ==
    /\ presort' = unsorted
    /\ results' = unsorted
    /\ pc' = "done"

\* a run returns: its last list, sorted
Return(unsorted) ==
    /\ presort' = unsorted
    /\ results' = SortByScoreDesc(unsorted)
    /\ pc' = "done"

\* rough mode: one call of rough_match_resumes
RoughRun(answer) ==
    /\ pc = "idle"
    /\ mode' = "rough"
    /\ hits' = answer
    /\ Return(RoughUnsorted(answer))
    /\ UNCHANGED <<jd_chunks, precise_top_n, rough_results, resume_chunks_list,
                   idx, precise_results, lookups, outcomes>>
    /\ UNCHANGED cacheVars
    /\ UNCHANGED chunkVars
    /\ UNCHANGED <<waitVars, textVars, aggVars, parseVars>>
    /\ UNCHANGED storeVars

\* precise mode: batch_match_resumes(resume_chunks_list, jd_chunks) is called
BatchStart(list, jd) ==
    /\ pc = "idle"
    /\ mode' = "precise"
    /\ resume_chunks_list' = list
    /\ jd_chunks' = jd
    /\ idx' = 1
    /\ IF list = <<>>
       THEN Return(<<>>)
       ELSE pc' = "batch" /\ UNCHANGED <<presort, results>>
    /\ UNCHANGED <<hits, precise_top_n, rough_results, precise_results, lookups, outcomes>>
    /\ UNCHANGED cacheVars
    /\ UNCHANGED chunkVars
    /\ UNCHANGED <<waitVars, textVars, aggVars, parseVars>>
    /\ UNCHANGED storeVars

\* one iteration of the loop of batch_match_resumes (lines 284-287); the last
\* one is followed by the sort and the return
BatchStep(out) ==
    /\ pc = "batch"
    /\ idx <= Len(resume_chunks_list)
    /\ LET resume_id == resume_chunks_list[idx].resume_id
           resume_chunks == resume_chunks_list[idx].chunks
           called == CallsLLM(resume_chunks, jd_chunks)
           r == match_resume_with_jd(merge_cache, resume_chunks, jd_chunks, out)
           match_result == Put(r.result, "resume_id", resume_id)
           list == Append(precise_results, match_result)
       IN  /\ called \/ out = NoOutcome
           /\ ~called \/ out # NoOutcome
           /\ merge_cache' = r.cache
           /\ outcomes' = Append(outcomes, out)
           /\ IF r.raised
              THEN pc' = "aborted" /\ UNCHANGED <<precise_results, idx, presort, results>>
              ELSE /\ precise_results' = list
                   /\ idx' = idx + 1
                   /\ IF idx = Len(resume_chunks_list)
                      THEN Return(list)
                      ELSE UNCHANGED <<pc, presort, results>>
    /\ UNCHANGED <<mode, hits, jd_chunks, precise_top_n, rough_results,
                   resume_chunks_list, lookups>>
    /\ UNCHANGED <<call, hist, ncalls>>
    /\ UNCHANGED chunkVars
    /\ UNCHANGED <<waitVars, textVars, aggVars, parseVars>>
    /\ UNCHANGED storeVars

\* mutant: the slice taken from the end of the list
TopOfTail(rough, top_n) ==
    SubSeq(rough, Len(rough) - SliceLen(Len(rough), top_n) + 1, Len(rough))

\* top_resumes = rough_results[:precise_top_n]
TopOf(rough, top_n) == SubSeq(rough, 1, SliceLen(Len(rough), top_n))

\* remaining_resumes = rough_results[precise_top_n:], each marked rough only
RemainingOf(rough, top_n) ==
    LET rest == SubSeq(rough, SliceLen(Len(rough), top_n) + 1, Len(rough))
    IN  [k \in 1..Len(rest) |->
            Put([rest[k] EXCEPT !.matching_mode = "hybrid_rough_only"], "note",
                "Filtered out after rough matching - did not qualify for precise analysis")]

TopResumes == TopOf(rough_results, precise_top_n)

RemainingResumes == RemainingOf(rough_results, precise_top_n)

\* steps 5 and on of hybrid_match_resumes (lines 478-495)
HybridReturn(precise, remaining) == Return(precise \o remaining)

\* hybrid mode: hybrid_match_resumes is called; step 1 (the rough match) and
\* step 2 (the top N) are done, and the run returns at once when there is
\* nothing to look up
HybridStart(answer, jd, top_n) ==
    /\ pc = "idle"
    /\ mode' = "hybrid"
    /\ hits' = answer
    /\ jd_chunks' = jd
    /\ precise_top_n' = top_n
    /\ rough_results' = rough_match_resumes(answer)
    /\ idx' = 1
    /\ LET rough == rough_match_resumes(answer)
       IN  IF rough = <<>>
           THEN /\ presort' = <<>>
                /\ results' = <<>>
                /\ pc' = "done"
           ELSE IF TopOf(rough, top_n) = <<>>
           THEN HybridReturn(<<>>, RemainingOf(rough, top_n))
           ELSE pc' = "lookup" /\ UNCHANGED <<presort, results>>
    /\ UNCHANGED <<resume_chunks_list, precise_results, lookups, outcomes>>
    /\ UNCHANGED cacheVars
    /\ UNCHANGED chunkVars
    /\ UNCHANGED <<waitVars, textVars, aggVars, parseVars>>
    /\ UNCHANGED storeVars

\* step 3, one iteration (lines 456-459): get_chunks_by_document answers the
\* fragments of the resume, or [] when it finds none or its query fails
HybridLookup(found) ==
    /\ pc = "lookup"
    /\ idx <= Len(TopResumes)
    /\ LET resume_id == TopResumes[idx].resume_id
           resume_chunks == IF found THEN StoredChunks(resume_id) ELSE <<>>
           list == IF resume_chunks # <<>>
                   THEN Append(resume_chunks_list,
                               [resume_id |-> resume_id, chunks |-> resume_chunks])
                   ELSE resume_chunks_list
       IN  /\ resume_chunks_list' = list
           /\ lookups' = Append(lookups, resume_chunks)
           /\ IF idx < Len(TopResumes)
              THEN idx' = idx + 1 /\ UNCHANGED <<pc, presort, results>>
              ELSE /\ idx' = 1
                   /\ IF list = <<>>
                      THEN HybridReturn(<<>>, RemainingResumes)
                      ELSE pc' = "precise" /\ UNCHANGED <<presort, results>>
    /\ UNCHANGED <<mode, hits, jd_chunks, precise_top_n, rough_results,
                   precise_results, outcomes>>
    /\ UNCHANGED cacheVars
    /\ UNCHANGED chunkVars
    /\ UNCHANGED <<waitVars, textVars, aggVars, parseVars>>
    /\ UNCHANGED storeVars

\* step 4, one iteration (lines 463-476); the last one is followed by steps
\* 5 and on
HybridPrecise(out) ==
    /\ pc = "precise"
    /\ idx <= Len(resume_chunks_list)
    /\ LET resume_id == resume_chunks_list[idx].resume_id
           resume_chunks == resume_chunks_list[idx].chunks
           called == CallsLLM(resume_chunks, jd_chunks)
           r == match_resume_with_jd(merge_cache, resume_chunks, jd_chunks, out)
           with_id == Put(r.result, "resume_id", resume_id)
           found == {k \in 1..Len(TopResumes) : TopResumes[k].resume_id = resume_id}
           rough_info == TopResumes[CHOOSE k \in found : \A j \in found : k <= j]
           with_rough ==
               IF found = {} THEN with_id
               ELSE Put(Put(Put(with_id,
                    "rough_match_score", Get(rough_info, "match_score", 0)),
                    "rough_similarity", Get(rough_info, "average_similarity", 0)),
                    "rough_matching_chunks", Get(rough_info, "matching_chunks_count", 0))
           precise_result == Put(with_rough, "matching_mode", "hybrid")
           list == Append(precise_results, precise_result)
       IN  /\ called \/ out = NoOutcome
           /\ ~called \/ out # NoOutcome
           /\ merge_cache' = r.cache
           /\ outcomes' = Append(outcomes, out)
           /\ IF r.raised
              THEN pc' = "aborted" /\ UNCHANGED <<precise_results, idx, presort, results>>
              ELSE /\ precise_results' = list
                   /\ idx' = idx + 1
                   /\ IF idx = Len(resume_chunks_list)
                      THEN HybridReturn(list, RemainingResumes)
                      ELSE UNCHANGED <<pc, presort, results>>
    /\ UNCHANGED <<mode, hits, jd_chunks, precise_top_n, rough_results,
                   resume_chunks_list, lookups>>
    /\ UNCHANGED <<call, hist, ncalls>>
    /\ UNCHANGED chunkVars
    /\ UNCHANGED <<waitVars, textVars, aggVars, parseVars>>
    /\ UNCHANGED storeVars

RoughRows == RowSeqs(Docs \cup {NoDoc}, RoughDistances)

HybridRows == RowSeqs(Docs, HybridDistances)

\* the runs the matcher is asked for, and their steps, with every answer the
\* collaborators can give
RoughMatch == pc = "idle" /\ \E answer \in RoughRows : RoughRun(answer)

BatchMatch ==
    pc = "idle" /\ \E list \in BatchLists, jd \in JdChunkLists : BatchStart(list, jd)

BatchMatchStep == pc = "batch" /\ \E out \in LLMOutcomes \cup {NoOutcome} : BatchStep(out)

HybridMatch ==
    pc = "idle" /\ \E answer \in HybridRows, jd \in JdChunkLists, top_n \in TopNs :
                      HybridStart(answer, jd, top_n)

HybridLookupStep == pc = "lookup" /\ \E found \in BOOLEAN : HybridLookup(found)

HybridPreciseStep ==
    pc = "precise" /\ \E out \in LLMOutcomes \cup {NoOutcome} : HybridPrecise(out)

NextFunnel ==
    \/ RoughMatch
    \/ BatchMatch
    \/ BatchMatchStep
    \/ HybridMatch
    \/ HybridLookupStep
    \/ HybridPreciseStep

(***************************************************************************)
(* The deep-evaluation call, step by step: the loops of                    *)
(* batch_match_resumes and hybrid_match_resumes around                     *)
(* match_resume_with_jd, with the generate_content call as a request that  *)
(* is sent and an answer that arrives                                      *)
(***************************************************************************)

\* bound: candidates of one run
MaxCandidates == 2

DeepModes == {"precise", "hybrid"}

\* the (resume_id, chunks) lists of a run: distinct ids, with or without
\* content
DeepLists ==
    UNION { {l \in [1..n -> [resume_id : Docs, chunks : {<<>>, <<cA>>}]] :
                \A a, b \in 1..n : a # b => l[a].resume_id # l[b].resume_id}
            : n \in 0..MaxCandidates }

InitWait ==
    /\ deep_pc = "idle"
    /\ deep_mode = "none"
    /\ deep_jd = <<>>
    /\ deep_queue = <<>>
    /\ deep_results = <<>>

\* what the loop appends for a candidate: the dict of match_resume_with_jd
\* with the resume_id, and the mode tag the hybrid loop adds
DeepResult(candidate, out) ==
    LET r == match_resume_with_jd(EmptyCache, candidate.chunks, deep_jd, out)
        with_id == Put(r.result, "resume_id", candidate.resume_id)
    IN  IF deep_mode = "hybrid" THEN Put(with_id, "matching_mode", "hybrid") ELSE with_id

\* the run is called with its candidates
DeepStart ==
    /\ deep_pc = "idle"
    /\ \E m \in DeepModes, list \in DeepLists, jd \in JdChunkLists :
           /\ deep_mode' = m
           /\ deep_queue' = list
           /\ deep_jd' = jd
    /\ deep_pc' = "loop"
    /\ deep_results' = <<>>
    /\ UNCHANGED <<textVars, aggVars, parseVars>>
    /\ UNCHANGED <<cacheVars, funnelVars, chunkVars, storeVars>>

\* match_resume_with_jd reaches line 221 and sends the prompt
DeepCall ==
    /\ deep_pc = "loop"
    /\ deep_queue # <<>>
    /\ CallsLLM(Head(deep_queue).chunks, deep_jd)
    /\ deep_pc' = "calling"
    /\ UNCHANGED <<deep_mode, deep_jd, deep_queue, deep_results>>
    /\ UNCHANGED <<textVars, aggVars, parseVars>>
    /\ UNCHANGED <<cacheVars, funnelVars, chunkVars, storeVars>>

\* match_resume_with_jd returns at its content test (lines 207-214) and no
\* prompt is sent
DeepSkip ==
    /\ deep_pc = "loop"
    /\ deep_queue # <<>>
    /\ ~CallsLLM(Head(deep_queue).chunks, deep_jd)
    /\ deep_results' = Append(deep_results, DeepResult(Head(deep_queue), NoOutcome))
    /\ deep_queue' = Tail(deep_queue)
    /\ UNCHANGED <<deep_pc, deep_mode, deep_jd>>
    /\ UNCHANGED <<textVars, aggVars, parseVars>>
    /\ UNCHANGED <<cacheVars, funnelVars, chunkVars, storeVars>>

\* generate_content returns or raises, and the iteration ends
DeepAnswer ==
    /\ deep_pc = "calling"
    /\ \E out \in LLMOutcomes :
           deep_results' = Append(deep_results, DeepResult(Head(deep_queue), out))
    /\ deep_queue' = Tail(deep_queue)
    /\ deep_pc' = "loop"
    /\ UNCHANGED <<deep_mode, deep_jd>>
    /\ UNCHANGED <<textVars, aggVars, parseVars>>
    /\ UNCHANGED <<cacheVars, funnelVars, chunkVars, storeVars>>

\* the loop is over: the list is sorted and returned
DeepReturn ==
    /\ deep_pc = "loop"
    /\ deep_queue = <<>>
    /\ deep_results' = SortByScoreDesc(deep_results)
    /\ deep_pc' = "returned"
    /\ UNCHANGED <<deep_mode, deep_jd, deep_queue>>
    /\ UNCHANGED <<textVars, aggVars, parseVars>>
    /\ UNCHANGED <<cacheVars, funnelVars, chunkVars, storeVars>>

NextWait ==
    \/ DeepStart
    \/ DeepCall
    \/ DeepSkip
    \/ DeepAnswer
    \/ DeepReturn

(***************************************************************************)
(* truncate_text (utils/text_utils.py); a string is a sequence of          *)
(* characters                                                              *)
(***************************************************************************)

\* bounds: length of the text, of the suffix, and the largest max_length
MaxTextLen == 4
MaxSuffixLen == 3
MaxMaxLength == 5

Chars == {"a", "."}

\* s[:n] of Python
Slice(s, n) == SubSeq(s, 1, SliceLen(Len(s), n))

\* truncate_text(text, max_length, suffix), lines 97-105
truncate_text(text, max_length, suffix) ==
    IF text = <<>> THEN <<>>
    ELSE IF Len(text) <= max_length THEN text
    ELSE LET truncate_at == max_length - Len(suffix)
         IN  Slice(text, truncate_at) \o suffix

Strings(n) == UNION { [1..k -> Chars] : k \in 0..n }

Suffixes == { [i \in 1..k |-> "."] : k \in 0..MaxSuffixLen }

NoArgs == [text |-> <<>>, max_length |-> 0, suffix |-> <<>>]
NoRet == [returned |-> FALSE, value |-> <<>>]

InitTruncate ==
    /\ truncate_args = NoArgs
    /\ truncate_ret = [returned |-> TRUE, value |-> <<>>]

\* the calls of truncate_text
InitTruncateInputs ==
    /\ truncate_args \in [text : Strings(MaxTextLen), max_length : 0..MaxMaxLength,
                          suffix : Suffixes]
    /\ truncate_ret = NoRet

TruncateText ==
    /\ ~truncate_ret.returned
    /\ truncate_ret' =
           [returned |-> TRUE,
            value |-> truncate_text(truncate_args.text, truncate_args.max_length,
                                    truncate_args.suffix)]
    /\ UNCHANGED <<truncate_args, name_arg, name_ret>>
    /\ UNCHANGED <<waitVars, aggVars, parseVars>>
    /\ UNCHANGED <<cacheVars, funnelVars, chunkVars, storeVars>>

NextTruncate == TruncateText

(***************************************************************************)
(* clean_name_for_id (utils/text_utils.py); a name is a sequence of        *)
(* characters, None is the record NoName                                   *)
(***************************************************************************)

\* bound: length of the drawn names
MaxNameLen == 4

\* upper-case letters and their lower-case forms
LowerOf == [c \in {"A", "U", "N", "K", "O", "W"} |->
               CASE c = "A" -> "a" [] c = "U" -> "u" [] c = "N" -> "n"
                 [] c = "K" -> "k" [] c = "O" -> "o" [] c = "W" -> "w"]

LowerLetters == {"a", "u", "n", "k", "o", "w"}

\* \w of the regular expressions: letters, digits and the underscore
IsWordChar(c) == c \in LowerLetters \/ c \in DOMAIN LowerOf \/ c \in {"7", "_"}

\* \s: whitespace (" " is a space, "\t" a tab)
IsSpaceChar(c) == c \in {" ", "\t"}

\* str.lower()
Lower(s) == [i \in 1..Len(s) |-> IF s[i] \in DOMAIN LowerOf THEN LowerOf[s[i]] ELSE s[i]]

\* re.sub(r'[^\w\s-]', '', name)
RemoveSpecial(s) == SelectSeq(s, LAMBDA c : IsWordChar(c) \/ IsSpaceChar(c) \/ c = "-")

\* str.strip()
RECURSIVE StripSpaces(_)
StripSpaces(s) ==
    IF s = <<>> THEN <<>>
    ELSE IF IsSpaceChar(Head(s)) THEN StripSpaces(Tail(s))
    ELSE IF IsSpaceChar(s[Len(s)]) THEN StripSpaces(SubSeq(s, 1, Len(s) - 1))
    ELSE s

\* re.sub(r'\s+', '_', s)
RECURSIVE SpacesToUnderscore(_)
SpacesToUnderscore(s) ==
    IF s = <<>> THEN <<>>
    ELSE IF IsSpaceChar(Head(s))
         THEN IF Len(s) > 1 /\ IsSpaceChar(s[2])
              THEN SpacesToUnderscore(Tail(s))
              ELSE <<"_">> \o SpacesToUnderscore(Tail(s))
         ELSE <<Head(s)>> \o SpacesToUnderscore(Tail(s))

NoName == [none |-> TRUE, value |-> <<>>]

Unknown == <<"u", "n", "k", "n", "o", "w", "n">>

\* clean_name_for_id(name), lines 62-76
clean_name_for_id(name) ==
    IF name = <<>> \/ Lower(name) = Unknown THEN NoName
    ELSE LET clean_name == Lower(SpacesToUnderscore(StripSpaces(RemoveSpecial(name))))
         IN  IF clean_name # <<>> THEN [none |-> FALSE, value |-> clean_name] ELSE NoName

NameChars == {"a", "A", " ", "\t", "-", "!", "_"}

\* the names drawn: every short name over NameChars, and 'unknown' in three
\* letter cases
Names ==
    UNION { [1..k -> NameChars] : k \in 0..MaxNameLen }
    \cup {Unknown, <<"U", "n", "k", "n", "o", "w", "n">>,
          <<"U", "N", "K", "N", "O", "W", "N">>}

NoNameCall == [called |-> FALSE, returned |-> FALSE, ret |-> NoName]

InitCleanName ==
    /\ name_arg = <<>>
    /\ name_ret = [called |-> FALSE, returned |-> TRUE, ret |-> NoName]

InitNames ==
    /\ name_arg \in Names
    /\ name_ret = NoNameCall

CleanNameForId ==
    /\ ~name_ret.returned
    /\ name_ret' = [called |-> TRUE, returned |-> TRUE, ret |-> clean_name_for_id(name_arg)]
    /\ UNCHANGED <<name_arg, truncate_args, truncate_ret>>
    /\ UNCHANGED <<cacheVars, funnelVars, chunkVars, storeVars, waitVars, aggVars, parseVars>>

NextCleanName == CleanNameForId

(***************************************************************************)
(* rough_match_resumes on similarities of five decimals: a distance or     *)
(* similarity n stands for n/100000, and the store's hits come in any      *)
(* order                                                                   *)
(***************************************************************************)

\* hundredths per unit of the fine similarities
FineScale == 1000

\* bound: hits of one query (top_k)
MaxHits == 6

\* distances of 0.1 and 0.39998
FineDistances == {10000, 39998}

\* the rows of one answer: up to MaxHits hits of two resumes, some of them
\* without a document_id
HitRows == UNION { [1..n -> [doc : {"r1", "r2", NoDoc}, distance : FineDistances]]
                   : n \in 0..MaxHits }

NoRough == [returned |-> FALSE, results |-> <<>>]

InitAgg ==
    /\ agg_hits = <<>>
    /\ agg_ret = NoRough

\* rough_match_resumes(db_storage, jd_text, top_k) with the answer of
\* search_similar_chunks
RoughMatchFine ==
    /\ ~agg_ret.returned
    /\ \E rows \in HitRows :
           /\ agg_hits' = FormatResultsAt(rows, 100 * FineScale)
           /\ agg_ret' = [returned |-> TRUE,
                          results |-> SortByScoreDesc(RoughUnsortedAt(rows, FineScale))]
    /\ UNCHANGED parseVars
    /\ UNCHANGED <<cacheVars, funnelVars, chunkVars, storeVars, waitVars, textVars>>

\* the caller is done with the list
RoughForget ==
    /\ agg_ret.returned
    /\ agg_hits' = <<>>
    /\ agg_ret' = NoRough
    /\ UNCHANGED parseVars
    /\ UNCHANGED <<cacheVars, funnelVars, chunkVars, storeVars, waitVars, textVars>>

NextAgg ==
    \/ RoughMatchFine
    \/ RoughForget

(***************************************************************************)
(* ResumePreprocessor.parse_with_llm: the extraction cache, the PDF upload *)
(* with its wait loop, the generate_content call and the parsing of its    *)
(* response                                                                *)
(***************************************************************************)

MAX_PDF_UPLOAD_ATTEMPTS == 60

\* bound: parse_with_llm calls in one behaviour
MaxParseCalls == 2

\* the resumes given to parse_with_llm: a text and the bytes of a PDF; the
\* key is _get_cache_key(resume_input)
ParseInputs == {[key |-> "t1", is_pdf |-> FALSE], [key |-> "p1", is_pdf |-> TRUE]}

NoInput == [key |-> "", is_pdf |-> FALSE]

\* the states genai reports for an uploaded file
FileStates == {"PROCESSING", "ACTIVE", "FAILED"}

\* the record an answer with a JSON object gives, and the record of the
\* setdefault calls on the empty dict (lines 199-203)
ParsedRecord == [name |-> "Ann", experience |-> <<"e">>, skills |-> <<"s">>,
                 education |-> <<>>, projects |-> <<>>]
DefaultRecord == [name |-> "Unknown", experience |-> <<>>, skills |-> <<>>,
                  education |-> <<>>, projects |-> <<>>]

\* what generate_content and the parsing of its text can come to: the call
\* raises, the text holds no JSON object, the JSON is invalid, or it parses
ExtractionOutcomes == {"raise", "nojson", "badjson", "json"}

\* the outcome of a call: llm is how far the extraction came ("none": not to
\* the prompt, "prompt": the prompt call raised, "cache": answered from the
\* cache, else what generate_content and the parsing came to); retry says
\* that the call before this one had the same input and raised
NoOutcomeYet == [kind |-> "none", error |-> "", data |-> DefaultRecord, llm |-> "none",
                 cached_before |-> FALSE, retry |-> FALSE]

InitParse ==
    /\ parse_pc = "idle"
    /\ parse_input = NoInput
    /\ file_state = "none"
    /\ attempts = 0
    /\ parse_outcome = NoOutcomeYet
    /\ extract_cache = [enable_cache |-> TRUE, entries |-> << >>]
    /\ parse_calls = 0

\* the cache directory as the processor finds it: empty, or holding the
\* record of the text resume
CacheDirs == {<< >>, [k \in {"t1"} |-> ParsedRecord]}

\* the processor is built with or without its cache
InitParseAny ==
    /\ parse_pc = "idle"
    /\ parse_input = NoInput
    /\ file_state = "none"
    /\ attempts = 0
    /\ parse_outcome = NoOutcomeYet
    /\ extract_cache \in [enable_cache : BOOLEAN, entries : CacheDirs]
    /\ parse_calls = 0

Raised(error, llm) ==
    /\ parse_pc' = "raised"
    /\ parse_outcome' = [kind |-> "raised", error |-> error, data |-> DefaultRecord,
                         llm |-> llm, cached_before |-> parse_outcome.cached_before,
                         retry |-> parse_outcome.retry]

Returned(data, llm) ==
    /\ parse_pc' = "returned"
    /\ parse_outcome' = [kind |-> "returned", error |-> "", data |-> data,
                         llm |-> llm, cached_before |-> parse_outcome.cached_before,
                         retry |-> parse_outcome.retry]

\* what follows a reported state: the loop test (line 125), the FAILED test
\* (line 138) and the way to generate_content
AfterState(state) ==
    IF state = "PROCESSING"
    THEN parse_pc' = "polling" /\ UNCHANGED parse_outcome
    ELSE IF state = "FAILED"
    THEN Raised("PDF processing failed on server", "none")
    ELSE parse_pc' = "generating" /\ UNCHANGED parse_outcome

\* parse_with_llm is called: the cache lookup (lines 99-103) with a get that
\* finds a fresh entry or none, and for a PDF the upload (line 119), which
\* raises or answers the file with its first state
ParseStart(input, fresh, upload_ok, state) ==
    /\ parse_pc = "idle"
    /\ parse_calls < MaxParseCalls
    /\ parse_input' = input
    /\ attempts' = 0
    /\ LET cached == input.key \in DOMAIN extract_cache.entries
           hit == extract_cache.enable_cache /\ cached /\ fresh
           started == [NoOutcomeYet EXCEPT
                          !.cached_before = cached,
                          !.retry = (parse_outcome.kind = "raised" /\ parse_input = input)]
       IN  IF hit
           THEN /\ parse_pc' = "returned"
                /\ parse_outcome' = [started EXCEPT !.kind = "returned",
                                                    !.data = extract_cache.entries[input.key],
                                                    !.llm = "cache"]
                /\ file_state' = "none"
           ELSE IF ~input.is_pdf
           THEN /\ parse_pc' = "generating"
                /\ parse_outcome' = started
                /\ file_state' = "none"
           ELSE IF ~upload_ok
           THEN /\ parse_pc' = "raised"
                /\ parse_outcome' = [started EXCEPT !.kind = "raised",
                                                    !.error = "Failed to process PDF"]
                /\ file_state' = "none"
           ELSE /\ file_state' = state
                /\ IF state = "PROCESSING"
                   THEN parse_pc' = "polling" /\ parse_outcome' = started
                   ELSE IF state = "FAILED"
                   THEN /\ parse_pc' = "raised"
                        /\ parse_outcome' =
                               [started EXCEPT !.kind = "raised",
                                               !.error = "PDF processing failed on server"]
                   ELSE parse_pc' = "generating" /\ parse_outcome' = started
    /\ parse_calls' = parse_calls + 1
    /\ UNCHANGED extract_cache
    /\ UNCHANGED aggVars
    /\ UNCHANGED <<cacheVars, funnelVars, chunkVars, storeVars, waitVars, textVars>>

\* mutant: the ceiling test lets one more poll through
PollCeilingOff(poll_ok, state) ==
    /\ parse_pc = "polling"
    /\ attempts' = attempts + 1
    /\ IF ~poll_ok
       THEN Raised("Failed to process PDF", "none") /\ UNCHANGED file_state
       ELSE /\ file_state' = state
            /\ IF attempts + 1 > MAX_PDF_UPLOAD_ATTEMPTS
               THEN Raised("PDF processing timeout", "none")
               ELSE AfterState(state)
    /\ UNCHANGED <<parse_input, extract_cache, parse_calls>>
    /\ UNCHANGED aggVars
    /\ UNCHANGED <<cacheVars, funnelVars, chunkVars, storeVars, waitVars, textVars>>

\* one iteration of the wait loop (lines 125-135): get_file raises or
\* reports a state, and the ceiling is tested right after it
Poll(poll_ok, state) ==
    /\ parse_pc = "polling"
    /\ attempts' = attempts + 1
    /\ IF ~poll_ok
       THEN Raised("Failed to process PDF", "none") /\ UNCHANGED file_state
       ELSE /\ file_state' = state
            /\ IF attempts + 1 >= MAX_PDF_UPLOAD_ATTEMPTS
               THEN Raised("PDF processing timeout", "none")
               ELSE AfterState(state)
    /\ UNCHANGED <<parse_input, extract_cache, parse_calls>>
    /\ UNCHANGED aggVars
    /\ UNCHANGED <<cacheVars, funnelVars, chunkVars, storeVars, waitVars, textVars>>

\* cache.set(cache_key, data) (lines 210-212), which may fail silently
CacheSet(data, write_ok) ==
    IF extract_cache.enable_cache /\ write_ok
    THEN extract_cache' = [extract_cache EXCEPT !.entries = Put(@, parse_input.key, data)]
    ELSE UNCHANGED extract_cache

\* generate_resume_extraction_prompt(resume_text) (extract_resume.py line 2)
\* called with nargs positional arguments: a TypeError unless its one
\* parameter is given
PromptCallRaises(nargs) == nargs # 1

\* the prompt call and all that follows it (lines 142-214): both call sites
\* (lines 142 and 164) give the prompt function no argument; then
\* generate_content, for a PDF the delete_file call, the parsing, the
\* defaults and the cache write
Generate(out, delete_ok, write_ok) ==
    /\ parse_pc = "generating"
    /\ IF PromptCallRaises(0)
       THEN /\ Raised(IF parse_input.is_pdf THEN "Failed to process PDF"
                      ELSE "Unexpected error during resume parsing", "prompt")
            /\ UNCHANGED extract_cache
       ELSE IF out = "raise"
       THEN /\ Raised(IF parse_input.is_pdf THEN "Failed to process PDF"
                      ELSE "Failed to call LLM API", out)
            /\ UNCHANGED extract_cache
       ELSE IF parse_input.is_pdf /\ ~delete_ok
       THEN Raised("Failed to process PDF", out) /\ UNCHANGED extract_cache
       ELSE IF out = "badjson"
       THEN /\ Raised("Failed to parse LLM response as JSON", out)
            /\ UNCHANGED extract_cache
       ELSE LET data == IF out = "nojson" THEN DefaultRecord ELSE ParsedRecord
            IN  Returned(data, out) /\ CacheSet(data, write_ok)
    /\ UNCHANGED <<parse_input, file_state, attempts, parse_calls>>
    /\ UNCHANGED aggVars
    /\ UNCHANGED <<cacheVars, funnelVars, chunkVars, storeVars, waitVars, textVars>>

\* the caller has the record or the error
ParseEnd ==
    /\ parse_pc \in {"returned", "raised"}
    /\ parse_pc' = "idle"
    /\ UNCHANGED <<parse_input, file_state, attempts, parse_outcome, extract_cache,
                   parse_calls>>
    /\ UNCHANGED aggVars
    /\ UNCHANGED <<cacheVars, funnelVars, chunkVars, storeVars, waitVars, textVars>>

ParseWithLlm ==
    parse_pc = "idle" /\ \E input \in ParseInputs, fresh, upload_ok \in BOOLEAN,
                            state \in FileStates :
                             ParseStart(input, fresh, upload_ok, state)

PollFile == parse_pc = "polling" /\ \E poll_ok \in BOOLEAN, state \in FileStates :
                                       Poll(poll_ok, state)

GenerateContent ==
    parse_pc = "generating" /\ \E out \in ExtractionOutcomes, delete_ok, write_ok \in BOOLEAN :
                                   Generate(out, delete_ok, write_ok)

NextParse ==
    \/ ParseWithLlm
    \/ PollFile
    \/ GenerateContent
    \/ ParseEnd

(***************************************************************************)
(* The field chunkers: ResumePreprocessor.generate_resume_chunks and       *)
(* JDPreprocessor.generate_hybrid_chunks                                   *)
(*                                                                         *)
(* A string of the structured fields is a text of pieces, "" is <<>>; a    *)
(* label or separator of the rendering ("Role:", "|", "-") is a piece of   *)
(* words without a mark.                                                   *)
(***************************************************************************)

Label(n) == Piece(n, "", TRUE)

\* a + b for two strings, where a ends with whitespace or b starts with it
Cat(a, b) ==
    IF a = <<>> THEN b ELSE [a EXCEPT ![Len(a)].sp = TRUE] \o b

\* ', '.join(items): a comma is written right after each item but the last
CommaJoin(items) ==
    LET closed(i) ==
            LET item == items[i]
            IN  IF i = Len(items) THEN item
                ELSE IF item = <<>> THEN <<Piece(0, ",", TRUE)>>
                ELSE IF item[Len(item)].p = ""
                THEN [item EXCEPT ![Len(item)].p = ",", ![Len(item)].sp = TRUE]
                ELSE [item EXCEPT ![Len(item)].sp = FALSE] \o <<Piece(0, ",", TRUE)>>
    IN  Flatten([i \in 1..Len(items) |-> closed(i)])

\* sep.join(items) for a separator that is whitespace (' ', '\n', '\n\n')
\* or has whitespace on both sides (' | '); separator is its pieces
SepJoin(separator, items) ==
    LET closed(i) ==
            LET item == IF items[i] = <<>> THEN <<>>
                        ELSE [items[i] EXCEPT ![Len(items[i])].sp = TRUE]
            IN  IF i = Len(items) THEN item ELSE item \o separator
    IN  Flatten([i \in 1..Len(items) |-> closed(i)])

\* '\n'.join([f"- {x}" for x in items])
Bullets(items) ==
    SepJoin(<<>>, [i \in 1..Len(items) |-> Cat(<<Label(1)>>, items[i])])

\* the chunk dict both chunkers build
FieldChunk(chunk_id, field, content, document_id, document_type) ==
    [chunk_id |-> chunk_id, field |-> field, content |-> content,
     metadata |-> [document_id |-> document_id, document_type |-> document_type,
                   field |-> field]]

\* SelectSeq on a flag: the items of a list of [keep, item] that are kept
Kept(flagged) ==
    LET keep(x) == x.keep
        chosen == SelectSeq(flagged, keep)
    IN  [i \in 1..Len(chosen) |-> chosen[i].item]

\* generate_resume_chunks(resume_json, resume_id) (lines 224-314)
generate_resume_chunks(resume_json, resume_id) ==
    LET skills ==
            IF resume_json.skills # <<>>
            THEN <<FieldChunk(<<resume_id, 0, "skills">>, "skills",
                              Cat(<<Label(1)>>, CommaJoin(resume_json.skills)),
                              resume_id, "resume")>>
            ELSE <<>>
        experience(i) ==
            LET exp == resume_json.experience[i]
                achievements_text == SepJoin(<<>>, exp.achievements)
                text_parts == Kept(<<
                    [keep |-> TRUE, item |-> Cat(<<Label(1)>>, exp.role)],
                    [keep |-> TRUE, item |-> Cat(<<Label(1)>>, exp.company)],
                    [keep |-> exp.period # <<>>, item |-> Cat(<<Label(1)>>, exp.period)],
                    [keep |-> exp.location # <<>>, item |-> Cat(<<Label(1)>>, exp.location)],
                    [keep |-> achievements_text # <<>>,
                     item |-> Cat(<<Label(1)>>, achievements_text)] >>)
            IN  FieldChunk(<<resume_id, i - 1, "experience">>, "experience",
                           Strip(SepJoin(<<Label(1)>>, text_parts)), resume_id, "resume")
        education(i) ==
            LET edu == resume_json.education[i]
                text_parts == Kept(<<
                    [keep |-> TRUE, item |-> Cat(Cat(edu.degree, <<Label(1)>>), edu.school)],
                    [keep |-> edu.period # <<>>, item |-> Cat(<<Label(1)>>, edu.period)],
                    [keep |-> edu.details # <<>>, item |-> edu.details] >>)
            IN  FieldChunk(<<resume_id, i - 1, "education">>, "education",
                           Strip(SepJoin(<<Label(1)>>, text_parts)), resume_id, "resume")
        projects(i) ==
            LET proj == resume_json.projects[i]
                text == Cat(Cat(Cat(<<Label(1)>>, proj.name), <<Label(1)>>), proj.description)
            IN  FieldChunk(<<resume_id, i - 1, "projects">>, "projects",
                           Strip(text), resume_id, "resume")
    IN  skills
        \o [i \in 1..Len(resume_json.experience) |-> experience(i)]
        \o [i \in 1..Len(resume_json.education) |-> education(i)]
        \o [i \in 1..Len(resume_json.projects) |-> projects(i)]

\* add_chunk(field_name, content) of generate_hybrid_chunks (lines 130-144)
add_chunk(list, jd_id, field_name, content) ==
    IF ~IsBlank(content)
    THEN Append(list, FieldChunk(<<jd_id, 0, field_name>>, field_name, Strip(content),
                                 jd_id, "job_description"))
    ELSE list

\* a part of a JD chunk: a label of n words and a text, written when the
\* value is there
Part(present, n, text) == [keep |-> present, item |-> Cat(<<Label(n)>>, text)]

\* generate_hybrid_chunks(jd_json, jd_id) (lines 118-253), on a jd_json
\* whose requirements, experience, education and qualifications are dicts
\* and whose lists are lists
generate_hybrid_chunks(jd_json, jd_id) ==
    LET requirements == jd_json.requirements
        experience == jd_json.experience
        education == jd_json.education
        qualifications == jd_json.qualifications
        req_resp_parts == Kept(<<
            Part(requirements.technical_skills # <<>>, 3,
                 CommaJoin(requirements.technical_skills)),
            Part(requirements.soft_skills # <<>>, 3, CommaJoin(requirements.soft_skills)),
            Part(jd_json.responsibilities # <<>>, 1, Bullets(jd_json.responsibilities)),
            Part(qualifications.required # <<>>, 2, Bullets(qualifications.required)) >>)
        exp_parts == Kept(<<
            Part(experience.years_required # <<>>, 2, experience.years_required),
            Part(experience.level # <<>>, 1, experience.level),
            Part(experience.description # <<>>, 1, experience.description) >>)
        edu_parts == Kept(<<
            Part(education.degree # <<>>, 1, education.degree),
            Part(education.field # <<>>, 1, education.field),
            Part(education.requirements # <<>>, 1, education.requirements) >>)
        exp_edu_parts == Kept(<<
            Part(exp_parts # <<>>, 2, SepJoin(<<>>, exp_parts)),
            Part(edu_parts # <<>>, 2, SepJoin(<<>>, edu_parts)),
            Part(qualifications.preferred # <<>>, 2, Bullets(qualifications.preferred)) >>)
        ben_loc_sal_parts == Kept(<<
            Part(jd_json.benefits # <<>>, 1, Bullets(jd_json.benefits)),
            Part(jd_json.location # <<>>, 1, jd_json.location),
            Part(jd_json.salary # <<>>, 1, jd_json.salary),
            Part(jd_json.employment_type # <<>>, 2, jd_json.employment_type),
            Part(jd_json.about_company # <<>>, 2, jd_json.about_company) >>)
        c1 == IF req_resp_parts # <<>>
              THEN add_chunk(<<>>, jd_id, "requirements_responsibilities",
                             SepJoin(<<>>, req_resp_parts))
              ELSE <<>>
        c2 == IF exp_edu_parts # <<>>
              THEN add_chunk(c1, jd_id, "experience_education", SepJoin(<<>>, exp_edu_parts))
              ELSE c1
        c3 == IF ben_loc_sal_parts # <<>>
              THEN add_chunk(c2, jd_id, "benefits_location_salary",
                             SepJoin(<<>>, ben_loc_sal_parts))
              ELSE c2
    IN  c3

\* the strings the structured fields are drawn from: none, a few words, a
\* few words and a full stop, and a run of 600 words that ends with a comma
Blank == <<>>
Short == <<Piece(40, "", TRUE)>>
Sentence == <<Piece(40, ".", TRUE)>>
LongRun == <<Piece(600, ",", TRUE)>>

ResumeJsons ==
    [skills : {<<>>, <<Short>>, <<Short, Blank, LongRun>>},
     experience : {<<>>} \cup
         { <<[role |-> Short, company |-> Short, period |-> period, location |-> Blank,
              achievements |-> achievements]>> :
             period \in {Blank, Short},
             achievements \in {<<>>, <<Sentence, Sentence>>, <<LongRun>>} },
     education : {<<>>} \cup
         { <<[degree |-> degree, school |-> Short, period |-> Blank, details |-> details]>> :
             degree \in {Blank, Short}, details \in {Blank, Sentence, LongRun} },
     projects : {<<>>} \cup
         { <<[name |-> Short, description |-> description]>> :
             description \in {Blank, Sentence} }]

JdJsons ==
    { [requirements |-> [technical_skills |-> technical_skills, soft_skills |-> <<>>],
       responsibilities |-> responsibilities,
       qualifications |-> [required |-> <<>>, preferred |-> preferred],
       experience |-> [years_required |-> Blank, level |-> level, description |-> description],
       education |-> [degree |-> degree, field |-> Blank, requirements |-> Blank],
       benefits |-> <<>>, location |-> location, salary |-> Blank,
       employment_type |-> Blank, about_company |-> about_company] :
         technical_skills \in {<<>>, <<Short, Short>>},
         responsibilities \in {<<>>, <<Sentence>>, <<LongRun, Short>>},
         preferred \in {<<>>, <<Short>>},
         level \in {Blank, Short},
         description \in {Blank, Sentence, LongRun},
         degree \in {Blank, Short},
         location \in {Blank, Short},
         about_company \in {Blank, Sentence} }

\* the structured fields the LLM extraction hands to the chunker
InitParsed ==
    /\ structured_fields \in
           { [document_type |-> "resume", fields |-> f] : f \in ResumeJsons }
           \cup { [document_type |-> "job_description", fields |-> f] : f \in JdJsons }
    /\ input_chunks = <<>>
    /\ processed_chunks = <<>>
    /\ chunk_pc = "parsed"

\* generate_resume_chunks on the parsed resume
GenerateResumeChunks ==
    /\ chunk_pc = "parsed"
    /\ structured_fields.document_type = "resume"
    /\ input_chunks' = generate_resume_chunks(structured_fields.fields, "r1")
    /\ chunk_pc' = "input"
    /\ UNCHANGED <<processed_chunks, structured_fields>>
    /\ UNCHANGED <<cacheVars, funnelVars, storeVars, waitVars, textVars, aggVars, parseVars>>

\* generate_hybrid_chunks on the parsed job description
GenerateHybridChunks ==
    /\ chunk_pc = "parsed"
    /\ structured_fields.document_type = "job_description"
    /\ input_chunks' = generate_hybrid_chunks(structured_fields.fields, "jd1")
    /\ chunk_pc' = "input"
    /\ UNCHANGED <<processed_chunks, structured_fields>>
    /\ UNCHANGED <<cacheVars, funnelVars, storeVars, waitVars, textVars, aggVars, parseVars>>

NextChunker ==
    \/ GenerateResumeChunks
    \/ GenerateHybridChunks
    \/ ValidateAndSplitChunks

(***************************************************************************)
(* The document store (ChromaDBStorage) and the upload and delete handlers *)
(* of ResumeManagerApp                                                     *)
(*                                                                         *)
(* A stored text, PDF or fragment is known by the number of the operation  *)
(* that wrote it, so that an overwrite shows.                              *)
(***************************************************************************)

DocIds == {"d1", "d2"}

\* bound: the handler calls of a behaviour
MaxOps == 3

\* bound: the fragments one upload produces
MaxChunksPerDoc == 2

\* what collection.add does with an id the collection already holds, by
\* the version of the library: it raises, or it leaves the entry as it is
DuplicatePolicies == {"raise", "ignore"}

Store == [documents |-> documents_collection, chunks |-> chunks_collection,
          pdfs |-> pdf_storage]

EmptyStore == [documents |-> << >>, chunks |-> << >>, pdfs |-> << >>]

\* get_document(document_id): the document, or None when there is none or
\* when the query raises (lines 285-287)
get_document(st, document_id, query_ok) ==
    query_ok /\ document_id \in DOMAIN st.documents

\* store_document (lines 94-141): the PDF is written first, to
\* <document_id>.pdf, then the document is added to the collection
store_document(st, document_id, v, has_pdf_bytes, write_ok, policy) ==
    LET written == has_pdf_bytes /\ write_ok
        pdfs == IF written THEN Put(st.pdfs, document_id, v) ELSE st.pdfs
        held == document_id \in DOMAIN st.documents
        documents == IF held THEN st.documents
                     ELSE Put(st.documents, document_id, [v |-> v, has_pdf |-> written])
    IN  [raised |-> held /\ policy = "raise",
         store |-> [st EXCEPT !.pdfs = pdfs, !.documents = documents]]

\* the fragments of an upload: ids made of the document id and a position
NewChunks(document_id, v, n) ==
    [c \in {<<document_id, k>> : k \in 1..n} |-> [document_id |-> document_id, v |-> v]]

\* store_chunks (lines 154-184): an empty list is passed over; the add to
\* the collection may fail (add_ok), and the failure is raised as
\* ChunkStorageError with nothing added
store_chunks(st, new_chunks, add_ok, policy) ==
    LET clash == DOMAIN new_chunks \cap DOMAIN st.chunks # {}
        merged == [c \in DOMAIN st.chunks \cup DOMAIN new_chunks |->
                      IF c \in DOMAIN st.chunks THEN st.chunks[c] ELSE new_chunks[c]]
    IN  IF DOMAIN new_chunks = {} THEN [raised |-> FALSE, store |-> st]
        ELSE IF ~add_ok \/ (clash /\ policy = "raise") THEN [raised |-> TRUE, store |-> st]
        ELSE [raised |-> FALSE, store |-> [st EXCEPT !.chunks = merged]]

\* the tail the upload handlers share: store_document, then store_chunks; an
\* exception of either ends the handler with an error message
StoreBoth(st, document_id, v, n, has_pdf_bytes, write_ok, add_ok, policy) ==
    LET d == store_document(st, document_id, v, has_pdf_bytes, write_ok, policy)
        c == store_chunks(d.store, NewChunks(document_id, v, n), add_ok, policy)
    IN  IF d.raised THEN [status |-> "error", store |-> d.store]
        ELSE IF c.raised THEN [status |-> "error", store |-> c.store]
        ELSE [status |-> "success", store |-> c.store]

\* an upload handler that looks the id up first: the four single uploads
\* (app.py lines 641-846); needs_chunks is the `if not chunks` test, which
\* _process_single_resume_upload does not have
CheckedUpload(st, document_id, v, n, has_pdf_bytes, needs_chunks,
              query_ok, write_ok, add_ok, policy) ==
    IF get_document(st, document_id, query_ok)
    THEN [status |-> "error", store |-> st]
    ELSE IF needs_chunks /\ n = 0
    THEN [status |-> "error", store |-> st]
    ELSE StoreBoth(st, document_id, v, n, has_pdf_bytes, write_ok, add_ok, policy)

\* one file of process_batch_upload (lines 158-264), its id already chosen
BatchFile(st, resume_id, v, n, skip_existing, query_ok, write_ok, add_ok, policy) ==
    IF skip_existing /\ get_document(st, resume_id, query_ok)
    THEN [status |-> "skipped", store |-> st]
    ELSE IF n = 0
    THEN [status |-> "error", store |-> st]
    ELSE StoreBoth(st, resume_id, v, n, TRUE, write_ok, add_ok, policy)

\* delete_document (lines 370-408): each of the three deletes may fail, and
\* a failure is logged and passed over
delete_document(st, document_id, query_ok, doc_ok, chunks_ok, pdf_ok) ==
    LET document == get_document(st, document_id, query_ok)
        has_path == document /\ st.documents[document_id].has_pdf
        documents == IF doc_ok
                     THEN [d \in DOMAIN st.documents \ {document_id} |-> st.documents[d]]
                     ELSE st.documents
        kept == {c \in DOMAIN st.chunks : st.chunks[c].document_id # document_id}
        chunks == IF chunks_ok THEN [c \in kept |-> st.chunks[c]] ELSE st.chunks
        pdfs == IF has_path /\ document_id \in DOMAIN st.pdfs /\ pdf_ok
                THEN [d \in DOMAIN st.pdfs \ {document_id} |-> st.pdfs[d]]
                ELSE st.pdfs
    IN  [raised |-> FALSE,
         store |-> [documents |-> documents, chunks |-> chunks, pdfs |-> pdfs]]

\* generate_resume_id_from_name for the name "d1" (app.py lines 57-71): the
\* first of d1, d1_1, d1_2 that is neither in processed_ids nor found in the
\* store; found_at is the set of positions at which get_document answers
NameChain == <<"d1", "d1_1", "d1_2">>

TakenAt(st, processed_ids, queries_ok, k) ==
    NameChain[k] \in processed_ids \/ get_document(st, NameChain[k], k \in queries_ok)

FreeAt(st, processed_ids, queries_ok) ==
    { k \in 1..Len(NameChain) :
        /\ ~TakenAt(st, processed_ids, queries_ok, k)
        /\ \A j \in 1..(k - 1) : TakenAt(st, processed_ids, queries_ok, j) }

NoOp == [op |-> "none", id |-> "", status |-> "none", existed |-> FALSE,
         before |-> EmptyStore]

NoBatch == [active |-> FALSE, files |-> {}, skip_existing |-> FALSE,
            use_filename_as_id |-> FALSE, processed_ids |-> {}]

InitStore ==
    /\ documents_collection = << >>
    /\ chunks_collection = << >>
    /\ pdf_storage = << >>
    /\ last_op = NoOp
    /\ nops = 0
    /\ batch = NoBatch

\* a handler has run on the store
Ran(op, document_id, r) ==
    /\ documents_collection' = r.store.documents
    /\ chunks_collection' = r.store.chunks
    /\ pdf_storage' = r.store.pdfs
    /\ last_op' = [op |-> op, id |-> document_id, status |-> r.status,
                   existed |-> document_id \in DOMAIN documents_collection,
                   before |-> Store]
    /\ nops' = nops + 1

Chosen(op, has_pdf_bytes, needs_chunks) ==
    /\ nops < MaxOps
    /\ \E document_id \in DocIds, n \in 0..MaxChunksPerDoc,
          query_ok \in BOOLEAN, write_ok \in BOOLEAN, add_ok \in BOOLEAN,
          policy \in DuplicatePolicies :
           Ran(op, document_id,
               CheckedUpload(Store, document_id, nops + 1, n, has_pdf_bytes,
                             needs_chunks, query_ok, write_ok, add_ok, policy))
    /\ UNCHANGED batch
    /\ UNCHANGED <<cacheVars, funnelVars, chunkVars, waitVars, textVars, aggVars, parseVars>>

\* _process_single_resume_upload
SingleResumeUpload == ~batch.active /\ Chosen("single_resume", TRUE, FALSE)

\* _process_text_resume_upload
TextResumeUpload == ~batch.active /\ Chosen("text_resume", FALSE, TRUE)

\* _process_file_jd_upload, of a PDF file
FileJdUploadPdf == ~batch.active /\ Chosen("file_jd", TRUE, TRUE)

\* _process_file_jd_upload, of a text file
FileJdUploadText == ~batch.active /\ Chosen("file_jd", FALSE, TRUE)

\* _process_text_jd_upload
TextJdUpload == ~batch.active /\ Chosen("text_jd", FALSE, TRUE)

\* process_batch_upload is called on a folder of PDF files (lines 136-155);
\* the files of a folder have different names
BatchUploadStart ==
    /\ ~batch.active
    /\ \E files \in SUBSET DocIds, skip_existing \in BOOLEAN, use_filename_as_id \in BOOLEAN :
           /\ files # {}
           /\ nops + Cardinality(files) <= MaxOps
           /\ batch' = [active |-> TRUE, files |-> files, skip_existing |-> skip_existing,
                        use_filename_as_id |-> use_filename_as_id, processed_ids |-> {}]
    /\ UNCHANGED <<documents_collection, chunks_collection, pdf_storage, last_op, nops>>
    /\ UNCHANGED <<cacheVars, funnelVars, chunkVars, waitVars, textVars, aggVars, parseVars>>

\* one iteration of the loop of process_batch_upload (lines 158-264)
BatchUploadFile ==
    /\ batch.active
    /\ \E file \in batch.files, n \in 0..MaxChunksPerDoc,
          queries_ok \in IF batch.use_filename_as_id THEN {{}}
                         ELSE SUBSET (1..Len(NameChain)),
          query_ok \in BOOLEAN, write_ok \in BOOLEAN, add_ok \in BOOLEAN,
          policy \in DuplicatePolicies :
         \E k \in IF batch.use_filename_as_id THEN {0}
                  ELSE FreeAt(Store, batch.processed_ids, queries_ok) :
           LET resume_id == IF batch.use_filename_as_id THEN file ELSE NameChain[k]
               r == BatchFile(Store, resume_id, nops + 1, n, batch.skip_existing,
                              query_ok, write_ok, add_ok, policy)
               left == batch.files \ {file}
           IN  /\ Ran("batch", resume_id, r)
               /\ batch' = IF left = {} THEN NoBatch
                           ELSE [batch EXCEPT !.files = left,
                                   !.processed_ids =
                                       IF r.status = "success" THEN @ \cup {resume_id} ELSE @]
    /\ UNCHANGED <<cacheVars, funnelVars, chunkVars, waitVars, textVars, aggVars, parseVars>>

\* delete_document(document_id), called from the table views
DeleteDocument ==
    /\ ~batch.active
    /\ nops < MaxOps
    /\ \E document_id \in DocIds, query_ok \in BOOLEAN, doc_ok \in BOOLEAN,
          chunks_ok \in BOOLEAN, pdf_ok \in BOOLEAN :
           LET r == delete_document(Store, document_id, query_ok, doc_ok, chunks_ok, pdf_ok)
           IN  Ran("delete", document_id,
                   [status |-> IF r.raised THEN "raised" ELSE "returned", store |-> r.store])
    /\ UNCHANGED batch
    /\ UNCHANGED <<cacheVars, funnelVars, chunkVars, waitVars, textVars, aggVars, parseVars>>

NextStore ==
    \/ SingleResumeUpload
    \/ TextResumeUpload
    \/ FileJdUploadPdf
    \/ FileJdUploadText
    \/ TextJdUpload
    \/ BatchUploadStart
    \/ BatchUploadFile
    \/ DeleteDocument

(***************************************************************************)
(* Specifications                                                          *)
(***************************************************************************)

Init == InitCache /\ InitFunnel /\ InitChunks /\ InitStore /\ InitWait /\ InitTruncate /\ InitCleanName
        /\ InitAgg /\ InitParse

InitSplit ==
    InitCache /\ InitFunnel /\ InitChunkInputs /\ InitStore /\ InitWait /\ InitTruncate /\ InitCleanName
        /\ InitAgg /\ InitParse

SpecChunks == InitSplit /\ [][NextChunks]_vars

InitChunker ==
    InitCache /\ InitFunnel /\ InitParsed /\ InitStore /\ InitWait /\ InitTruncate /\ InitCleanName
        /\ InitAgg /\ InitParse

SpecChunker == InitChunker /\ [][NextChunker]_vars

SpecCache == Init /\ [][NextCache]_vars

SpecFunnel == Init /\ [][NextFunnel]_vars

SpecStore == Init /\ [][NextStore]_vars

\* The run is one thread: it takes its next step whenever that step depends
\* on the program alone.  Nothing ends an outstanding generate_content call
\* but the LLM's answer or failure (no timeout is passed and no timer
\* runs), so no fairness is assumed for DeepAnswer.
SpecWait ==
    Init /\ [][NextWait]_vars
         /\ WF_vars(DeepCall) /\ WF_vars(DeepSkip) /\ WF_vars(DeepReturn)

\* the same with an LLM that answers or fails every call
SpecWaitAnswered == SpecWait /\ WF_vars(DeepAnswer)

InitText ==
    InitCache /\ InitFunnel /\ InitChunks /\ InitStore /\ InitWait /\ InitTruncateInputs /\ InitCleanName
        /\ InitAgg /\ InitParse

SpecTruncate == InitText /\ [][NextTruncate]_vars

InitNameCalls ==
    InitCache /\ InitFunnel /\ InitChunks /\ InitStore /\ InitWait /\ InitTruncate /\ InitNames
        /\ InitAgg /\ InitParse

SpecCleanName == InitNameCalls /\ [][NextCleanName]_vars

SpecAgg == Init /\ [][NextAgg]_vars

InitExtraction ==
    InitCache /\ InitFunnel /\ InitChunks /\ InitStore /\ InitWait /\ InitTruncate
        /\ InitCleanName /\ InitAgg /\ InitParseAny

SpecParse == InitExtraction /\ [][NextParse]_vars

(***************************************************************************)
(* Claims on the matching funnel                                           *)
(***************************************************************************)

CountMode(list, m) == Cardinality({i \in 1..Len(list) : Get(list[i], "matching_mode", "") = m})

\* C1 (as claimed): a hybrid run over N rough results with precise_top_n =
\* k <= N returns N results, k of them tagged 'hybrid' and N - k tagged
\* 'hybrid_rough_only', whatever the lookups and the deep evaluations did
C1_HybridCoverage ==
    (mode = "hybrid" /\ pc = "done" /\ precise_top_n <= Len(rough_results)) =>
        /\ Len(results) = Len(rough_results)
        /\ CountMode(results, "hybrid") = precise_top_n
        /\ CountMode(results, "hybrid_rough_only") = Len(rough_results) - precise_top_n

\* the results of a finished run that carry resume id
ResultsOf(id) == {i \in 1..Len(results) : Get(results[i], "resume_id", "") = id}

RoughList == IF mode = "rough" THEN results ELSE rough_results

\* a has a greater average similarity than b
AvgGreater(a, b) ==
    a.total_similarity * b.matching_chunks_count
        > b.total_similarity * a.matching_chunks_count

\* C6 (as claimed): of two candidates the one with the greater average
\* similarity never has the smaller match_score, negative similarities
\* included
C6_ScoreMonotone ==
    \A i, j \in 1..Len(RoughList) :
        AvgGreater(RoughList[i], RoughList[j]) =>
            RoughList[i].match_score >= RoughList[j].match_score

\* C7: the rough match_score is 80 + (avg - 0.8) * 100 for 0.8 <= avg <= 1,
\* avg * 100 for 0 <= avg < 0.8 and clamp((avg + 1) * 50, 0, 100) otherwise,
\* rounded to two decimals, and lies in [0, 100]; a single hit of 0.9 gives
\* 90.0, a single hit of 0.4 gives 40.0 and ranks below it
C7_ScoreCalibration ==
    /\ \A i \in 1..Len(RoughList) :
         LET r == RoughList[i]
             n == r.matching_chunks_count
             t == r.total_similarity    \* avg = t / (100 * n)
         IN  /\ (80 * n <= t /\ t <= 100 * n) =>
                   r.match_score = RoundHalfEven(8000 * n + 100 * (t - 80 * n), n)
             /\ (0 <= t /\ t < 80 * n) =>
                   r.match_score = RoundHalfEven(100 * t, n)
             /\ (t < 0 \/ t > 100 * n) =>
                   r.match_score =
                       Max(0, Min(10000, RoundHalfEven(50 * (t + 100 * n), n)))
             /\ 0 <= r.match_score /\ r.match_score <= 10000
             /\ (n = 1 /\ t = 90) => r.match_score = 9000
             /\ (n = 1 /\ t = 40) => r.match_score = 4000
    /\ \A i, j \in 1..Len(RoughList) :
         (/\ RoughList[i].matching_chunks_count = 1
          /\ RoughList[i].total_similarity = 40
          /\ RoughList[j].matching_chunks_count = 1
          /\ RoughList[j].total_similarity = 90) => j < i

\* C7 witness: a rough run that returned a candidate with a single 0.9 hit,
\* one with a single 0.4 hit and one whose average lies outside [0, 1]
C7_Witness ==
    /\ mode = "rough" /\ pc = "done"
    /\ \E i, j, k \in 1..Len(results) :
          /\ results[i].matching_chunks_count = 1 /\ results[i].total_similarity = 90
          /\ results[j].matching_chunks_count = 1 /\ results[j].total_similarity = 40
          /\ results[k].total_similarity < 0

\* C8: in every rough result qualified holds exactly for match_score >= 60,
\* and the recommendation is STRONG_MATCH from 80, GOOD_MATCH in [65, 80),
\* PARTIAL_MATCH in [50, 65) and NOT_MATCH below 50; the configured
\* thresholds are ordered STRONG > GOOD > PARTIAL >= 0 and STRONG <= 100
C8_QualificationAndBands ==
    /\ STRONG_MATCH_THRESHOLD > GOOD_MATCH_THRESHOLD
    /\ GOOD_MATCH_THRESHOLD > PARTIAL_MATCH_THRESHOLD
    /\ PARTIAL_MATCH_THRESHOLD >= 0
    /\ STRONG_MATCH_THRESHOLD <= 100
    /\ \A i \in 1..Len(RoughList) :
         LET r == RoughList[i]
         IN  /\ r.qualified <=> r.match_score >= 6000
             /\ r.recommendation = "STRONG_MATCH" <=> r.match_score >= 8000
             /\ r.recommendation = "GOOD_MATCH" <=>
                    (6500 <= r.match_score /\ r.match_score < 8000)
             /\ r.recommendation = "PARTIAL_MATCH" <=>
                    (5000 <= r.match_score /\ r.match_score < 6500)
             /\ r.recommendation = "NOT_MATCH" <=> r.match_score < 5000

\* C8 witness: a rough run with a qualified PARTIAL_MATCH, a GOOD_MATCH or
\* STRONG_MATCH and a NOT_MATCH among its results
C8_Witness ==
    /\ mode = "rough" /\ pc = "done"
    /\ \E i, j \in 1..Len(results) :
          /\ results[i].recommendation = "PARTIAL_MATCH" /\ results[i].qualified
          /\ results[j].recommendation = "NOT_MATCH"

\* the place of x in a list of distinct elements
PosIn(list, x) == CHOOSE k \in 1..Len(list) : list[k] = x

\* C9: the list a rough, precise or hybrid run returns is in non-increasing
\* match_score order, and results of equal match_score keep the order they
\* had before the sort
C9_SortedStable ==
    pc = "done" =>
        /\ IsPerm(results, presort)
        /\ \A i, j \in 1..Len(results) :
             i < j =>
                /\ SortKey(results[i]) >= SortKey(results[j])
                /\ SortKey(results[i]) = SortKey(results[j]) =>
                      PosIn(presort, results[i]) < PosIn(presort, results[j])

\* C9 witness: a hybrid run returned three results, two of equal match_score
\* that the sort had to move past the third
C9_Witness ==
    /\ mode = "hybrid" /\ pc = "done" /\ Len(results) = 3
    /\ results # presort
    /\ \E i, j \in 1..3 : i # j /\ SortKey(results[i]) = SortKey(results[j])


(***************************************************************************)
(* Claims on ChunkSizeManager                                              *)
(***************************************************************************)

IsSplitChild(chunk) == "is_split" \in DOMAIN chunk.metadata

\* every fragment of the input with fewer than MIN_TOKENS tokens is in the
\* output as it was given
SmallKept ==
    \A j \in 1..Len(input_chunks) :
        estimate_tokens(input_chunks[j].content) < MIN_TOKENS
            => \E i \in 1..Len(processed_chunks) : processed_chunks[i] = input_chunks[j]

\* the fragment is one clause of a split fragment: it holds no comma or
\* semicolon and no sentence boundary
WholeClause(chunk) ==
    /\ IsSplitChild(chunk)
    /\ \A k \in 1..Len(chunk.content) : chunk.content[k].p # ","
    /\ Len(split_into_sentences(chunk.content)) = 1

Visible(text) ==
    LET shown(piece) == OwnTokens(piece) >= 1
    IN  SelectSeq(text, shown)

\* the sentences of a text, as split_into_sentences reads them
SentencesOf(text) ==
    LET sentences == split_into_sentences(text)
    IN  [i \in 1..Len(sentences) |-> Visible(sentences[i])]

\* the contents of the split children in the output, in part_number order,
\* joined by a single space
Rejoined ==
    LET children == SelectSeq(processed_chunks, IsSplitChild)
    IN  JoinSpace([i \in 1..Len(children) |-> children[i].content])

\* the fragment of the input that was split
Oversized ==
    LET large(chunk) == estimate_tokens(chunk.content) > MAX_TOKENS
    IN  SelectSeq(input_chunks, large)

\* C11: once an oversized fragment has been split, the contents of its
\* sub-fragments joined by a single space in part_number order hold the same
\* sentences as the original, in the same order, none dropped or duplicated
C11_SplitFidelity ==
    (chunk_pc = "done" /\ Oversized # <<>>) =>
        SentencesOf(Rejoined) = SentencesOf(Oversized[1].content)

\* the candidates of a hybrid run: the ids the rough step ranked
Candidates == { rough_results[k].resume_id : k \in 1..Len(rough_results) }

\* the positions of the precise loop at which the deep evaluation was called
Called == { k \in 1..Len(outcomes) : outcomes[k] # NoOutcome }

\* the states of a candidate in a hybrid run
CandidateState(id) ==
    IF pc = "idle" THEN "PENDING"
    ELSE IF pc = "done"
    THEN IF \E k \in 1..Len(results) : results[k].resume_id = id
         THEN "DONE" ELSE "DROPPED"
    ELSE IF \E k \in 1..Len(precise_results) : precise_results[k].resume_id = id
    THEN "PRECISE_ANALYZED"
    ELSE "ROUGH_FILTERED"

\* no retry: the deep evaluation is called at most once per candidate and at
\* most precise_top_n times, only for candidates of the top slice, a failed
\* call is not repeated and does not abort the run, and the run has returned
\* once the last call has ended
C12_CallsBounded ==
    mode = "hybrid" =>
        /\ Cardinality(Called) <= precise_top_n
        /\ Len(outcomes) <= Len(resume_chunks_list)
        /\ \A j, k \in 1..Len(resume_chunks_list) :
               resume_chunks_list[j].resume_id = resume_chunks_list[k].resume_id => j = k
        /\ \A k \in 1..Len(outcomes) :
               /\ \E t \in 1..Len(TopResumes) :
                      TopResumes[t].resume_id = resume_chunks_list[k].resume_id
               /\ \A t \in 1..Len(RemainingResumes) :
                      RemainingResumes[t].resume_id # resume_chunks_list[k].resume_id
        /\ pc # "aborted"
        /\ pc = "precise" => Len(outcomes) < Len(resume_chunks_list)
        /\ pc = "done" => Len(outcomes) = Len(resume_chunks_list)

\* C12: in a hybrid run the deep evaluation is called at most once per
\* candidate and at most precise_top_n times, never for a candidate that ends
\* rough-only and never again after a failed call; the run ends in DONE, and
\* then every candidate has gone PENDING -> ROUGH_FILTERED ->
\* (PRECISE_ANALYZED | ROUGH_ONLY) -> DONE: it is in the result list once, as
\* 'hybrid' or as 'hybrid_rough_only'
C12_FunnelStateMachine ==
    /\ C12_CallsBounded
    /\ (mode = "hybrid" /\ pc = "done") =>
           \A id \in Candidates :
               /\ CandidateState(id) = "DONE"
               /\ Cardinality({k \in 1..Len(results) : results[k].resume_id = id}) = 1
               /\ \A k \in 1..Len(results) : results[k].resume_id = id =>
                      results[k].matching_mode \in {"hybrid", "hybrid_rough_only"}

\* the positions of the precise loop at which the response could not be parsed
ParseFailures ==
    { k \in 1..Len(precise_results) : outcomes[k].kind \in {"nojson", "badjson"} }

\* C13: when the deep-evaluation response holds no JSON object or invalid
\* JSON, match_resume_with_jd returns (the run does not abort) a result with
\* recommendation NOT_MATCH, match_score 0, qualified = false, the parse
\* error and a preview of the raw response of at most 500 characters
C13_ParseFailureRepair ==
    /\ pc # "aborted"
    /\ \A k \in ParseFailures :
           LET r == precise_results[k]
           IN  /\ Get(r, "recommendation", "missing") = "NOT_MATCH"
               /\ r.match_score = 0
               /\ r.qualified = FALSE
               /\ "error" \in DOMAIN r
               /\ "raw_response" \in DOMAIN r
               /\ r.raw_response <= 500

\* the matching_mode values of the results of a run in the given mode
ModesOf(m) ==
    IF m = "rough" THEN {"rough"}
    ELSE IF m = "precise" THEN {"precise"}
    ELSE {"hybrid", "hybrid_rough_only"}

\* C14: in the list a run returns no candidate id is in two results, and
\* every result, error results included, carries the matching_mode of the
\* run's mode: 'rough' in rough mode, 'precise' in batch mode, 'hybrid' or
\* 'hybrid_rough_only' in hybrid mode
C14_OneTaggedResult ==
    pc = "done" =>
        /\ \A i, j \in 1..Len(results) :
               results[i].resume_id = results[j].resume_id => i = j
        /\ \A i \in 1..Len(results) :
               Get(results[i], "matching_mode", "missing") \in ModesOf(mode)

(***************************************************************************)
(* Claims on the document store                                            *)
(***************************************************************************)

Uploads == {"single_resume", "text_resume", "file_jd", "text_jd", "batch"}

\* C15: an upload whose document id is already in the store is reported as
\* an error (or as skipped) and has changed nothing: the documents, the
\* fragments and the PDF files are as the upload found them
C15_DuplicateIsError ==
    (last_op.op \in Uploads /\ last_op.existed) =>
        /\ last_op.status \in {"error", "skipped"}
        /\ Store = last_op.before

\* the fragments whose document is not in the store
Orphans ==
    { c \in DOMAIN chunks_collection :
        chunks_collection[c].document_id \notin DOMAIN documents_collection }

\* C16: after delete_document(d) has returned without raising, the store
\* holds neither the document d nor a fragment of d, whatever the single
\* deletes did; and after any upload or completed delete every stored
\* fragment belongs to a stored document
C16_DeleteCascades ==
    /\ (last_op.op = "delete" /\ last_op.status = "returned") =>
           /\ last_op.id \notin DOMAIN documents_collection
           /\ \A c \in DOMAIN chunks_collection :
                  chunks_collection[c].document_id # last_op.id
    /\ Orphans = {}


\* the document the last upload has added to the store
CreatedDocument ==
    /\ last_op.id \in DOMAIN documents_collection
    /\ last_op.id \notin DOMAIN last_op.before.documents

\* the fragments the last upload has added to the store
CreatedChunks ==
    { c \in DOMAIN chunks_collection \ DOMAIN last_op.before.chunks :
        chunks_collection[c].document_id = last_op.id }

\* C27 (as claimed): an upload stores both the document and its fragments
\* or neither, whatever the single store calls do: the upload has added a
\* document exactly when it has added fragments of it, and a stored
\* document is never left without fragments by an upload
C27_CreatedTogether ==
    last_op.op \in Uploads => (CreatedDocument <=> CreatedChunks # {})

\* what holds instead: fragments are added only after their document
C27_ChunksOnlyWithDocument ==
    last_op.op \in Uploads => (CreatedChunks # {} => last_op.id \in DOMAIN documents_collection)

\* an upload reported as an error that has stored its document and no
\* fragment of it
C27_DocumentAlone ==
    /\ last_op.op \in Uploads
    /\ last_op.status = "error"
    /\ CreatedDocument
    /\ CreatedChunks = {}


\* the field names the resume chunker can give a fragment, with the names
\* the specification adds to them
ResumeVocabulary ==
    {"skills", "experience", "education", "certifications", "projects",
     "responsibilities", "additional_info"}

\* the fragments the job-description chunker has produced
JdChunks ==
    IF structured_fields.document_type = "job_description" /\ chunk_pc # "parsed"
    THEN input_chunks ELSE <<>>

\* C17: every fragment of a job description carries a field name of the
\* resume vocabulary, so that a field-filtered search can pair it with
\* resume fragments of the same field.
C17_MirroredVocabulary ==
    \A i \in 1..Len(JdChunks) :
        /\ JdChunks[i].field \in ResumeVocabulary
        /\ JdChunks[i].metadata.field \in ResumeVocabulary

\* C18: after chunking and size normalization no fragment that would be
\* stored has empty content.
C18_NoEmptyFragment ==
    (chunk_pc = "done" /\ structured_fields.document_type # "none") =>
        \A i \in 1..Len(processed_chunks) : ~IsBlank(processed_chunks[i].content)

\* the chunkers themselves never emit an empty fragment
C18_ChunkerOutputNonEmpty ==
    (chunk_pc = "input" /\ structured_fields.document_type # "none") =>
        \A i \in 1..Len(input_chunks) : ~IsBlank(input_chunks[i].content)


\* C19: every deep-evaluation call ends within a bounded wait, whether or
\* not the LLM ever answers, and a precise or hybrid run that has started
\* eventually returns its result list.
C19_BoundedWait ==
    /\ (deep_pc = "calling") ~> (deep_pc # "calling")
    /\ (deep_pc \in {"loop", "calling"}) ~> (deep_pc = "returned")

\* with an LLM that answers or fails every call, every call ends and the
\* run returns one result per candidate
C19_ReturnsWhenAnswered ==
    (deep_pc \in {"loop", "calling"}) ~> (deep_pc = "returned" /\ deep_queue = <<>>)

\* C20: truncate_text returns a string of length at most max_length; a text
\* no longer than max_length is returned unchanged; a truncated result has
\* length exactly max_length and ends with the suffix.
C20_TruncateLengthBound ==
    truncate_ret.returned /\ truncate_args # NoArgs =>
        LET text == truncate_args.text
            max_length == truncate_args.max_length
            suffix == truncate_args.suffix
            ret == truncate_ret.value
        IN  /\ Len(ret) <= max_length
            /\ Len(text) <= max_length => ret = text
            /\ Len(text) > max_length =>
                   /\ Len(ret) = max_length
                   /\ SubSeq(ret, Len(ret) - Len(suffix) + 1, Len(ret)) = suffix

\* the bound does hold for the calls whose max_length leaves room for the
\* suffix
C20_BoundWithRoom ==
    (truncate_ret.returned /\ truncate_args # NoArgs
        /\ truncate_args.max_length >= Len(truncate_args.suffix)) =>
        /\ Len(truncate_ret.value) <= truncate_args.max_length
        /\ Len(truncate_args.text) > truncate_args.max_length =>
               Len(truncate_ret.value) = truncate_args.max_length


\* the characters an id may hold: lower-case letters, digits, underscores
IdChars == LowerLetters \cup {"7", "_"}

\* C21: clean_name_for_id returns None for an empty name, for 'unknown' in
\* any letter case and for a name with nothing left after cleaning;
\* otherwise it returns a lower-case id without whitespace, without a hyphen
\* and without any other special character.
C21_CleanNameAlphabet ==
    name_ret.called =>
        LET ret == name_ret.ret
        IN  /\ (name_arg = <<>> \/ Lower(name_arg) = Unknown) => ret.none
            /\ ~ret.none =>
                   /\ ret.value # <<>>
                   /\ \A i \in 1..Len(ret.value) : ret.value[i] \in IdChars

\* the same alphabet with the hyphen allowed
C21_AlphabetWithHyphen ==
    name_ret.called =>
        LET ret == name_ret.ret
        IN  /\ (name_arg = <<>> \/ Lower(name_arg) = Unknown) => ret.none
            /\ ~ret.none =>
                   /\ ret.value # <<>>
                   /\ \A i \in 1..Len(ret.value) : ret.value[i] \in IdChars \cup {"-"}


\* the positions of the returned list tagged m
Tagged(m) == {i \in 1..Len(results) : Get(results[i], "matching_mode", "") = m}

\* C22: in a hybrid run every result tagged 'hybrid' belongs to one of the
\* first precise_top_n rough results, which no later rough result outscores;
\* it carries that candidate's rough match_score, average_similarity and
\* matching_chunks_count, and its rough_match_score is at least the
\* match_score of every result tagged 'hybrid_rough_only'.
C22_HybridIsTopOfRough ==
    (mode = "hybrid" /\ pc = "done") =>
        \A i \in Tagged("hybrid") :
            \E k \in 1..Len(rough_results) :
                /\ k <= precise_top_n
                /\ rough_results[k].resume_id = results[i].resume_id
                /\ \A j \in 1..Len(rough_results) :
                       j > precise_top_n =>
                           rough_results[j].match_score <= rough_results[k].match_score
                /\ Get(results[i], "rough_match_score", -1) = rough_results[k].match_score
                /\ Get(results[i], "rough_similarity", -1)
                       = rough_results[k].average_similarity
                /\ Get(results[i], "rough_matching_chunks", -1)
                       = rough_results[k].matching_chunks_count
                /\ \A j \in Tagged("hybrid_rough_only") :
                       results[j].match_score <= Get(results[i], "rough_match_score", -1)

\* a hybrid run that analysed two candidates and kept a third, lower-scored
\* one as rough only
C22_Witness ==
    /\ mode = "hybrid" /\ pc = "done"
    /\ Cardinality(Tagged("hybrid")) = 2
    /\ \E j \in Tagged("hybrid_rough_only") : \A i \in Tagged("hybrid") :
           results[j].match_score < results[i].rough_match_score

HitsOf(id) == {h \in 1..Len(agg_hits) : Get(agg_hits[h].metadata, "document_id", NoDoc) = id}

\* the candidate ids the answer's hits carry
HitIds == {Get(agg_hits[h].metadata, "document_id", NoDoc) : h \in 1..Len(agg_hits)} \ {NoDoc}

RECURSIVE SumOver(_, _)
SumOver(f(_), S) ==
    IF S = {} THEN 0
    ELSE LET x == CHOOSE y \in S : TRUE IN f(x) + SumOver(f, S \ {x})

SimilarityAt(h) == agg_hits[h].similarity

CountAt(i) == agg_ret.results[i].matching_chunks_count

\* one result per candidate id of the hits and none for another, each with
\* the number of its hits, and the counts add up to the hits that carry an id
AccountsForHits ==
    /\ \A id \in HitIds :
           Cardinality({i \in 1..Len(agg_ret.results) : agg_ret.results[i].resume_id = id}) = 1
    /\ \A i \in 1..Len(agg_ret.results) :
           /\ agg_ret.results[i].resume_id \in HitIds
           /\ CountAt(i) = Cardinality(HitsOf(agg_ret.results[i].resume_id))
    /\ SumOver(CountAt, 1..Len(agg_ret.results))
           = Cardinality({h \in 1..Len(agg_hits) :
                             "document_id" \in DOMAIN agg_hits[h].metadata})
    /\ SumOver(CountAt, 1..Len(agg_ret.results)) <= MaxHits

\* C24 (as claimed): rough_match_resumes accounts for every hit once, and
\* each result's total_similarity is the sum of the similarities of its
\* candidate's hits.
C24_AggregationAccounts ==
    agg_ret.returned =>
        /\ AccountsForHits
        /\ \A i \in 1..Len(agg_ret.results) :
               agg_ret.results[i].total_similarity
                   = SumOver(SimilarityAt, HitsOf(agg_ret.results[i].resume_id))

\* C24 (amended): the same, with total_similarity the sum rounded to four
\* decimals, so within 0.00005 of the sum.
C24_AggregationAccountsRounded ==
    agg_ret.returned =>
        /\ AccountsForHits
        /\ \A i \in 1..Len(agg_ret.results) :
               LET sum == SumOver(SimilarityAt, HitsOf(agg_ret.results[i].resume_id))
                   total == agg_ret.results[i].total_similarity
               IN  /\ total % (FineScale \div 100) = 0
                   /\ 2 * (total - sum) <= FineScale \div 100
                   /\ 2 * (sum - total) <= FineScale \div 100

\* an answer with hits of two candidates and a hit without an id, in which
\* a total is not the sum of the similarities
C24_Witness ==
    /\ agg_ret.returned
    /\ Len(agg_ret.results) = 2
    /\ \E h \in 1..Len(agg_hits) : "document_id" \notin DOMAIN agg_hits[h].metadata
    /\ \E i \in 1..2 :
           /\ CountAt(i) >= 2
           /\ agg_ret.results[i].total_similarity
                  # SumOver(SimilarityAt, HitsOf(agg_ret.results[i].resume_id))

\* C25: the top_matching_chunks of a candidate are at most 5 hits of that
\* candidate, and no hit of the candidate that was left out has a higher
\* similarity than a retained one, in whatever order the hits arrive.
C25_TopFiveRetention ==
    agg_ret.returned =>
        \A i \in 1..Len(agg_ret.results) :
            LET top == agg_ret.results[i].top_matching_chunks
                kept == {top[k].chunk_id : k \in 1..Len(top)}
                mine == HitsOf(agg_ret.results[i].resume_id)
            IN  /\ Len(top) <= 5
                /\ kept \subseteq mine
                /\ \A out \in mine \ kept : \A in \in kept :
                       agg_hits[out].similarity <= agg_hits[in].similarity

\* the hits arrive nearest first
NearestFirst ==
    \A a, b \in 1..Len(agg_hits) : a < b => agg_hits[a].distance <= agg_hits[b].distance

\* on answers that list the hits nearest first the retained hits are the
\* highest
C25_TopFiveWhenNearestFirst ==
    (agg_ret.returned /\ NearestFirst) =>
        \A i \in 1..Len(agg_ret.results) :
            LET top == agg_ret.results[i].top_matching_chunks
                kept == {top[k].chunk_id : k \in 1..Len(top)}
                mine == HitsOf(agg_ret.results[i].resume_id)
            IN  /\ Len(top) = Min(5, Cardinality(mine))
                /\ kept \subseteq mine
                /\ \A out \in mine \ kept : \A in \in kept :
                       agg_hits[out].similarity <= agg_hits[in].similarity


(***************************************************************************)
(* The two merges of match_resume_with_jd on drawn fragment lists          *)
(***************************************************************************)

cS == Chunk("summary", "a")

\* the fragment lists handed to match_resume_with_jd, in several arrival orders
MergeLists ==
    ChunkLists \cup { <<cH, cA, cL>>, <<cA, cE, cB>>, <<cL, cE, cS>>, <<cE, cS>> }

\* lines 204-205 of match_resume_with_jd: the resume merge (through the cache,
\* keyed by the content hash) and the JD merge
MergeForMatch(resume_chunks, jd) ==
    /\ ncalls < MaxCalls
    /\ LET r == merge_resume_chunks(merge_cache, resume_chunks, NoId)
       IN  /\ merge_cache' = r.cache
           /\ call' = [op |-> "match", chunks |-> resume_chunks, id |-> NoId,
                       ret |-> r.ret, hit |-> r.hit, computed |-> r.computed,
                       before |-> merge_cache,
                       jd_chunks |-> jd,
                       jd_content |-> merge_jd_chunks(jd)]
    /\ hist' = hist
    /\ ncalls' = ncalls + 1
    /\ UNCHANGED funnelVars
    /\ UNCHANGED chunkVars
    /\ UNCHANGED <<waitVars, textVars, aggVars, parseVars>>
    /\ UNCHANGED storeVars

MergeContents ==
    \E resume_chunks \in MergeLists, jd \in MergeLists :
        MergeForMatch(resume_chunks, jd)

NextMerge ==
    \/ MergeContents
    \/ ClearCache

SpecMerge == Init /\ [][NextMerge]_vars

(***************************************************************************)
(* Claims on the merge order                                               *)
(***************************************************************************)

\* the positions of the section headers of a merged text
HeaderPositions(text) == SelectSeq([i \in 1..Len(text) |-> i], LAMBDA i : text[i] = "## ")

\* the section names of a merged text, in the order they are listed
Headers(text) ==
    LET pos == HeaderPositions(text)
    IN  [k \in 1..Len(pos) |-> text[pos[k] + 1]]

\* the fragment contents listed in section k of a merged text
SectionBody(text, k) ==
    LET pos == HeaderPositions(text)
        last == IF k < Len(pos) THEN pos[k + 1] - 1 ELSE Len(text)
    IN  SelectSeq(SubSeq(text, pos[k] + 3, last), LAMBDA p : p \notin {"\n", "\n\n"})

PreferredFields ==
    <<"summary", "experience", "skills", "education",
      "certifications", "projects", "achievements">>

PreferredRank(f) ==
    IF \E i \in 1..Len(PreferredFields) : PreferredFields[i] = f
    THEN CHOOSE i \in 1..Len(PreferredFields) : PreferredFields[i] = f
    ELSE 0

FirstArrival(chunks, f) == CHOOSE i \in 1..Len(chunks) :
    /\ FieldOf(chunks[i]) = f
    /\ \A j \in 1..(i - 1) : FieldOf(chunks[j]) # f

FieldsOf(chunks) == {FieldOf(chunks[i]) : i \in 1..Len(chunks)}

\* field f is listed before field g under the fixed order
ListedBefore(chunks, f, g) ==
    IF PreferredRank(f) > 0
    THEN PreferredRank(g) = 0 \/ PreferredRank(f) < PreferredRank(g)
    ELSE PreferredRank(g) = 0 /\ FirstArrival(chunks, f) < FirstArrival(chunks, g)

\* text lists one section per field of chunks, in the fixed order, each with
\* the contents of its fragments in arrival order
InFixedOrder(text, chunks) ==
    LET hs == Headers(text)
    IN  /\ Len(hs) = Cardinality(FieldsOf(chunks))
        /\ \A f \in FieldsOf(chunks) : \E k \in 1..Len(hs) :
              /\ hs[k] = Upper(f)
              /\ SectionBody(text, k) =
                    LET mine == SelectSeq(chunks, LAMBDA c : FieldOf(c) = f)
                    IN  [i \in 1..Len(mine) |-> ContentOf(mine[i])]
              /\ \A g \in FieldsOf(chunks) \ {f} : \A m \in 1..Len(hs) :
                    hs[m] = Upper(g) => (k < m <=> ListedBefore(chunks, f, g))

\* C26 (as claimed): the merged resume text and the merged JD text handed to
\* the deep evaluation list their field sections in the fixed preferred order
\* (summary, experience, skills, education, certifications, projects,
\* achievements, then the remaining fields in first-encounter order) whatever
\* order the fragments arrive in, each section's contents in arrival order
C26_FixedMergeOrder ==
    call.op = "match" =>
        /\ InFixedOrder(call.ret, call.chunks)
        /\ InFixedOrder(call.jd_content, call.jd_chunks)

\* the part of C26 that holds: the merged resume text is in the fixed order
C26_ResumeMergeOrder ==
    call.op = "match" => InFixedOrder(call.ret, call.chunks)

\* the order the merged JD text has: one section per field in first-encounter
\* order of all fields, preferred or not
C26_JdFirstEncounterOrder ==
    call.op = "match" =>
        LET hs == Headers(call.jd_content)
        IN  /\ Len(hs) = Cardinality(FieldsOf(call.jd_chunks))
            /\ \A k, m \in 1..Len(hs) : \A f, g \in FieldsOf(call.jd_chunks) :
                  (hs[k] = Upper(f) /\ hs[m] = Upper(g) /\ k < m)
                      => FirstArrival(call.jd_chunks, f) < FirstArrival(call.jd_chunks, g)


\* the wait loop of parse_with_llm runs one poll after the other: sleep one
\* second, ask get_file, test the ceiling
SpecParseFair == InitExtraction /\ [][NextParse]_vars /\ WF_vars(PollFile)

(***************************************************************************)
(* Claims on parse_with_llm                                                *)
(***************************************************************************)

\* the collaborator has failed: its call raised, or its answer holds no JSON
\* object, or the JSON is invalid
ExtractionFailed == parse_outcome.llm \in {"raise", "nojson", "badjson"}

NotCachedByCall ==
    ~parse_outcome.cached_before => parse_input.key \notin DOMAIN extract_cache.entries

\* a call on a text that follows a failed call on the same text has ended,
\* not answered from the cache
RetryEnded ==
    /\ parse_outcome.retry
    /\ ~parse_input.is_pdf
    /\ parse_pc \in {"returned", "raised"}
    /\ parse_outcome.llm # "cache"

\* C28 (as claimed): when the extraction fails for a resume (the LLM call
\* raises, the response holds no JSON object, or the JSON is invalid),
\* parse_with_llm raises; no record is returned and nothing is written to
\* the extraction cache, so that a later call with the same input calls the
\* collaborator again
C28_ExtractionFailureFatal ==
    /\ ExtractionFailed => (parse_outcome.kind = "raised" /\ NotCachedByCall)
    /\ parse_outcome.kind = "raised" => NotCachedByCall
    /\ RetryEnded => parse_outcome.llm \in ExtractionOutcomes

\* what holds instead: a call that is not answered from the cache raises and
\* writes nothing to the cache, and the collaborator is never called
C28_EveryExtractionRaises ==
    /\ parse_outcome.llm \notin ExtractionOutcomes
    /\ (parse_pc \in {"returned", "raised"} /\ parse_outcome.llm # "cache")
           => (parse_outcome.kind = "raised" /\ NotCachedByCall)

\* the call after a failed call on the same text has raised on the prompt
\* call, before the collaborator
C28_RetryWithoutCollaborator ==
    /\ RetryEnded
    /\ parse_outcome.kind = "raised"
    /\ parse_outcome.llm = "prompt"

\* a get_file call of the wait loop has raised: no state was reported
PollRaised ==
    /\ parse_outcome.kind = "raised"
    /\ parse_outcome.error = "Failed to process PDF"
    /\ parse_outcome.llm = "none"
    /\ attempts > 0

\* the wait loop has ended
LoopEnded == parse_input.is_pdf /\ attempts > 0 /\ parse_pc # "polling"

\* the three outcomes: the file is processed (generate_content is reached),
\* the 'processing failed' error, the timeout error
LoopOutcome ==
    \/ parse_pc = "generating"
    \/ parse_outcome.llm # "none"
    \/ parse_outcome.kind = "raised" /\ parse_outcome.error = "PDF processing failed on server"
    \/ parse_outcome.kind = "raised" /\ parse_outcome.error = "PDF processing timeout"

PollsBounded ==
    /\ attempts <= MAX_PDF_UPLOAD_ATTEMPTS
    /\ attempts = MAX_PDF_UPLOAD_ATTEMPTS => parse_pc # "polling"
    /\ (LoopEnded /\ ~PollRaised) => LoopOutcome

\* C29: whatever states the server reports, PROCESSING for ever included,
\* the wait loop makes at most MAX_PDF_UPLOAD_ATTEMPTS polls and then ends
\* with the file processed, the 'processing failed' error or the timeout
\* error; it never polls indefinitely
C29_PollingTerminates ==
    /\ []PollsBounded
    /\ (parse_pc = "polling") ~> (parse_pc # "polling")

\* the ceiling has ended the loop at the last permitted poll
C29_Witness ==
    /\ attempts = MAX_PDF_UPLOAD_ATTEMPTS
    /\ parse_pc = "raised"
    /\ parse_outcome.error = "PDF processing timeout"
    /\ file_state = "PROCESSING"

\* C30 (as claimed): the timeout error is raised only if the file is still
\* PROCESSING at the last permitted poll; a file a poll reports as processed
\* or as FAILED is handled as such and never as a timeout
C30_TimeoutOnlyWhileProcessing ==
    (parse_outcome.kind = "raised" /\ parse_outcome.error = "PDF processing timeout")
        => file_state = "PROCESSING"

\* what holds instead: the timeout is raised at the last permitted poll,
\* whatever that poll reports, and at no other
C30_TimeoutAtCeiling ==
    (parse_outcome.kind = "raised" /\ parse_outcome.error = "PDF processing timeout")
        => attempts = MAX_PDF_UPLOAD_ATTEMPTS

\* the last permitted poll has reported the file processed and the call has
\* raised the timeout
C30_ProcessedButTimeout ==
    /\ parse_outcome.kind = "raised"
    /\ parse_outcome.error = "PDF processing timeout"
    /\ file_state = "ACTIVE"

=============================================================================
